---- MODULE Spec2Model ----
(***************************************************************************)
(* Model of GoogleSsoService (src/google-sso.service.ts): the Google SSO   *)
(* login, registration, refresh-token exchange and revoke flows, over the  *)
(* refresh-token store, the user store, the provider-linkage store, the    *)
(* verification store and the authentication audit log.                    *)
(*                                                                         *)
(* Every public method is one action: calls run one at a time, each to     *)
(* completion.  Every awaited call may throw; `f` names the call of the     *)
(* method that throws (0: none) and `k` the kind it throws.  A call that   *)
(* throws has no effect of its own.                                        *)
(***************************************************************************)
EXTENDS Integers, Sequences, FiniteSets, TLC

\* ---------------------------------------------------------------- bounds
MaxCalls == 2
MaxTime == 1

\* ------------------------------------------------------------ value sets
\* A user's id and email are one value: emails are unique per user.
Users == {"u1", "u2"}
NoUser == "nobody"
\* Refresh-token strings; "" is the empty (falsy) string.
Tokens == {"rtA", "rtB"}
Undefined == "undefined"
Falsy == {"", Undefined}
Truthy(v) == v \notin Falsy
NoId == 0
NeverUsed == 0 - 1

\* Exception kinds.
Expired == "ExpiredRefreshTokenException"
UserNotFound == "UserNotFoundException"
Invalid == "InvalidRefreshTokenException"
UnexpectedRefresh == "UnexpectedErrorWhenRefreshingAccessTokenException"
GoogleAuthFailed == "GoogleAuthFailedException"
LogoutFailed == "UnexpectedErrorWhenLoggingOutException"
Other == "Error"
Ok == "ok"
\* What an awaited call may throw: InvalidRefreshTokenException, the named
\* kind the catch blocks expect from a collaborator (revokeRefreshToken tests
\* for it on the provider call alone), or any other error.  The two other
\* named kinds are thrown by refreshGoogleAccessToken itself.
Thrown == {Invalid, Other}

VARIABLES
    users,        \* registered users
    verification, \* user -> "none" | "pending" | "verified"
    tokens,       \* refresh-token rows, a row's id is its index
    sso,          \* user -> persisted provider payload (or NoPayload)
    audit,        \* authentication events the last call appended to the log
    mails,        \* user -> verification emails dispatched
    now,          \* the clock
    calls,        \* calls completed
    last,         \* the last completed call and what it returned or threw
    procs,        \* refreshGoogleAccessToken calls in flight, one per process
    given,        \* the provider payload last handed to createGoogleSso
    strips,       \* that payload's raw JSON stripped once, and once again
    jar,          \* the browser's cookies: name -> value
    seen,         \* the last request the middleware got, and what it fetched
    reply,        \* the middleware's response to that request
    ctx,          \* a backend request and what the context getters made of it
    page,         \* the document the feedback widgets live in, and the widgets
    form,         \* one feedback widget's form: its submissions and requests
    stats,        \* the effects in the repository and what execute returned
    button,       \* a Button: its props, its state, and its last render
    modal         \* the password reset modal: its state, interval and requests

\* The variables of the service's stores and of its calls run one at a time.
service == <<users, verification, tokens, sso, audit, mails, now, calls, last>>
\* The variables the one-at-a-time calls leave alone.
\* The variables of the frontend middleware and of the browser it answers.
browser == <<jar, seen, reply>>
\* The variables of the repository's other programs.
apart == <<ctx, page, form, stats, button, modal>>
\* The variables each of them leaves alone.
besideCtx == <<service, procs, given, strips, browser, page, form, stats, button, modal>>
besidePage == <<service, procs, given, strips, browser, ctx, form, stats, button, modal>>
besideForm == <<service, procs, given, strips, browser, ctx, page, stats, button, modal>>
besideStats == <<service, procs, given, strips, browser, ctx, page, form, button, modal>>
besideButton == <<service, procs, given, strips, browser, ctx, page, form, stats, modal>>
besideModal == <<service, procs, given, strips, browser, ctx, page, form, stats, button>>
elsewhere == <<procs, given, strips, browser, apart>>
vars == <<service, elsewhere>>

\* The persistent stores, as one value the methods transform.  The audit log
\* is append-only and never read back: a call starts from the end of the log
\* and `audit` keeps what the call appended.
Db == [users |-> users, verification |-> verification, tokens |-> tokens,
       sso |-> sso, audit |-> <<>>, mails |-> mails]

\* ------------------------------------------------ RefreshTokenService
\* deactivateRefreshTokens(userId): every row of the user becomes inactive.
DeactivateRefreshTokens(rows, u) ==
    [i \in 1..Len(rows) |->
        IF rows[i].user = u THEN [rows[i] EXCEPT !.active = FALSE] ELSE rows[i]]

\* createRefreshToken(userId, token, method): one new active row.  The clock
\* counts token lifetimes: a token issued in tick t is good until the end of
\* tick t (expires_on = t) and expired from tick t + 1 on.
CreateRefreshToken(rows, u, t, time) ==
    Append(rows, [user |-> u, token |-> t, active |-> TRUE,
                  expires_on |-> time, last_used_on |-> NeverUsed])

\* updateLastUsedOn(token): rows holding that token string are stamped.
UpdateLastUsedOn(rows, t, time) ==
    [i \in 1..Len(rows) |->
        IF rows[i].token = t THEN [rows[i] EXCEPT !.last_used_on = time] ELSE rows[i]]

ActiveRows(rows, u) == {i \in 1..Len(rows) : rows[i].user = u /\ rows[i].active}

\* ------------------------------------------------------- UserService
\* getUserByEmail(email): the user, or null.
GetUserByEmail(db, email) == IF email \in db.users THEN email ELSE NoUser

\* ------------------------------------------- AuthenticationLogService
LogAuthenticationEvent(log, actor, type, status, message, rtId) ==
    Append(log, [actor |-> actor, type |-> type, method |-> "GoogleSSO",
                 status |-> status, message |-> message, refreshTokenId |-> rtId])

NoMessage == "null"
UnexpectedSso == "UnexpectedErrorWhenAttemptingGoogleSso"

\* ------------------------------------------------------ JSON payloads
\* An object is a function from its keys to strings.
NoPayload == <<>>
Restrict(o, keys) == [x \in keys |-> o[x]]
\* JSON.stringify then JSON.parse: keys holding undefined are dropped.
JsonRoundTrip(o) == Restrict(o, {x \in DOMAIN o : o[x] # Undefined})
\* Mutant: the camel-case spelling is the one deleted.
MutDeleteAccessTokenCamel(o) == Restrict(o, DOMAIN o \ {"accessToken"})

\* Mutant: access_token is deleted or else, when there is none, accessToken.
MutDeleteAccessTokenEither(o) ==
    IF "access_token" \in DOMAIN o THEN Restrict(o, DOMAIN o \ {"access_token"})
    ELSE Restrict(o, DOMAIN o \ {"accessToken"})

\* delete parsedJson.access_token
DeleteAccessToken(o) == Restrict(o, DOMAIN o \ {"access_token"})
\* JSON.stringify(googleUser), as the callers of createGoogleSso pass it.
RawJson(dto) == JsonRoundTrip(dto)
\* createGoogleSso(userId, dto, rawJson): parse, delete access_token,
\* stringify; the result is what reaches the repository.
SanitizedJson(raw) == JsonRoundTrip(DeleteAccessToken(raw))
\* GoogleSsoRepository.createGoogleSso: the user's linkage row is upserted.
UpsertGoogleSso(links, u, json) == [links EXCEPT ![u] = json]

\* ------------------------------------------------- googleLogin
\* The state of a running method: the stores, whether an exception is in
\* flight (and its kind), and the method's locals.
Start(db) == [db |-> db, err |-> Ok, by |-> "none", userId |-> NoUser, rtId |-> NoId,
              nRefresh |-> 0, nRevoke |-> 0, ret |-> Undefined]
\* A throw statement (or a TypeError) of the method itself.
Throw(s, kind) == [s EXCEPT !.err = kind, !.by = "code"]
\* An awaited call rejects: `site` is "provider" for the Google client and
\* the name of the local service otherwise.
Local == {"users", "tokens", "sso", "verification", "audit", "jwt"}
Fail(s, kind, site) ==
    [s EXCEPT !.err = kind, !.by = IF site \in Local THEN "local" ELSE site]
Running(s) == s.err = Ok

\* const user = await getUserByEmail(googleUser.email); userId = user.id
\* (a null user makes user.id throw a TypeError).
LoginFindUser(s, g, f) ==
    LET user == GetUserByEmail(s.db, g["email"])
    IN  IF f = 1 THEN Fail(s, Other, "users")
        ELSE IF user = NoUser THEN Throw(s, Other)
        ELSE [s EXCEPT !.userId = user]

\* Mutant: the new token is stored without deactivating the old ones.
MutLoginStoreTokenNoDeactivate(s, rt, time, f) ==
    IF ~Running(s) \/ ~Truthy(rt) THEN s
    ELSE IF f \in {2, 3} THEN Fail(s, Other, "tokens")
    ELSE [s EXCEPT !.db.tokens = CreateRefreshToken(@, s.userId, rt, time),
                   !.rtId = Len(s.db.tokens) + 1]

\* Mutant: the new token is stored first and deactivated with the others.
MutLoginStoreTokenCreateFirst(s, rt, time, f) ==
    IF ~Running(s) \/ ~Truthy(rt) THEN s
    ELSE IF f \in {2, 3} THEN Fail(s, Other, "tokens")
    ELSE [s EXCEPT !.db.tokens = DeactivateRefreshTokens(
                                    CreateRefreshToken(@, s.userId, rt, time), s.userId),
                   !.rtId = Len(s.db.tokens) + 1]

\* if (refreshToken) { deactivateRefreshTokens; createRefreshToken }
LoginStoreToken(s, rt, time, f) ==
    IF ~Running(s) \/ ~Truthy(rt) THEN s
    ELSE IF f = 2 THEN Fail(s, Other, "tokens")
    ELSE LET off == DeactivateRefreshTokens(s.db.tokens, s.userId)
         IN  IF f = 3 THEN Fail([s EXCEPT !.db.tokens = off], Other, "tokens")
             ELSE [s EXCEPT !.db.tokens = CreateRefreshToken(off, s.userId, rt, time),
                            !.rtId = Len(off) + 1]

\* await this.createGoogleSso(user.id, googleUser, JSON.stringify(googleUser))
LoginLink(s, g, f) ==
    IF ~Running(s) THEN s
    ELSE IF f = 4 THEN Fail(s, Other, "sso")
    ELSE [s EXCEPT !.db.sso = UpsertGoogleSso(@, s.userId, SanitizedJson(RawJson(g)))]

\* Mutant: the local status is set to whatever the provider asserts.
MutLoginVerifyMirror(s, g, f) ==
    IF ~Running(s) THEN s
    ELSE IF f \in {5, 6} THEN Fail(s, Other, "verification")
    ELSE [s EXCEPT !.db.verification[s.userId] =
              IF g["emailVerified"] = "true" THEN "verified" ELSE "pending"]

\* if (!isEmailVerified && googleUser.emailVerified) markEmailVerified
LoginVerify(s, g, f) ==
    IF ~Running(s) THEN s
    ELSE IF f = 5 THEN Fail(s, Other, "verification")
    ELSE IF s.db.verification[s.userId] # "verified" /\ g["emailVerified"] = "true"
         THEN IF f = 6 THEN Fail(s, Other, "verification")
              ELSE [s EXCEPT !.db.verification[s.userId] = "verified"]
         ELSE s

\* the (Login, Success) event, then generateJwtToken: both inside the try.
LoginFinish(s, f) ==
    IF ~Running(s) THEN s
    ELSE IF f = 7 THEN Fail(s, Other, "audit")
    ELSE LET logged == [s EXCEPT !.db.audit = LogAuthenticationEvent(
                              @, s.userId, "Login", "Success", NoMessage, s.rtId)]
         IN  IF f = 8 THEN Fail(logged, Other, "jwt") ELSE logged

\* catch (error): the (Login, Failure) event, then GoogleAuthFailedException.
\* cf: the audit write of the catch block itself throws.
LoginCatch(s, cf) ==
    IF Running(s) THEN s
    ELSE IF cf THEN Fail(s, Other, "audit")
    ELSE Throw([s EXCEPT !.db.audit = LogAuthenticationEvent(
                    @, s.userId, "Login", "Failure", UnexpectedSso, NoId)],
               GoogleAuthFailed)

LoginTry(db, time, g, rt, f) ==
    LoginFinish(LoginVerify(LoginLink(LoginStoreToken(
        LoginFindUser(Start(db), g, f), rt, time, f), g, f), g, f), f)

googleLogin(db, time, g, rt, f, cf) == LoginCatch(LoginTry(db, time, g, rt, f), cf)

\* ------------------------------------------ refreshGoogleAccessToken
\* What googleClient.refresh answers: no token set at all, or a token set
\* whose id_token decodes to a payload with email and email_verified
\* (email Undefined: the id_token does not decode).
NoTokenSet == [set |-> FALSE, access_token |-> Undefined, refresh_token |-> Undefined,
               email |-> Undefined, email_verified |-> "false"]

\* new Date() > refreshToken.expires_on
IsExpired(time, row) == time > row.expires_on

\* Mutant: an expired token is reported without deactivating anything.
MutRefreshExpiryNoDeactivate(s, row, userId, time, f, k) ==
    IF ~IsExpired(time, row) THEN s
    ELSE IF f = 1 THEN Fail(s, k, "tokens")
    ELSE Throw(s, Expired)

\* if (expired) { deactivateRefreshTokens(userId); throw Expired }
RefreshExpiry(s, row, userId, time, f, k) ==
    IF ~IsExpired(time, row) THEN s
    ELSE IF f = 1 THEN Fail(s, k, "tokens")
    ELSE Throw([s EXCEPT !.db.tokens = DeactivateRefreshTokens(@, userId)], Expired)

\* newTokenSet = await googleClient.refresh(token); the access-token check.
RefreshCallProvider(s, resp, f, k) ==
    IF ~Running(s) THEN s
    ELSE LET called == [s EXCEPT !.nRefresh = @ + 1]
         IN  IF f = 2 THEN Fail(called, k, "provider")
             ELSE IF ~resp.set \/ ~Truthy(resp.access_token)
                  THEN Throw(called, UnexpectedRefresh)
                  ELSE called

\* await updateLastUsedOn(refreshToken.token)
RefreshTouch(s, row, time, f, k) ==
    IF ~Running(s) THEN s
    ELSE IF f = 3 THEN Fail(s, k, "tokens")
    ELSE [s EXCEPT !.db.tokens = UpdateLastUsedOn(@, row.token, time)]

\* decode the id token, getUserByEmail, throw UserNotFound on null.
RefreshFindUser(s, resp, f, k) ==
    IF ~Running(s) THEN s
    ELSE IF f = 4 THEN Fail(s, k, "users")
    ELSE LET user == GetUserByEmail(s.db, resp.email)
         IN  IF user = NoUser THEN Throw(s, UserNotFound)
             ELSE [s EXCEPT !.userId = user]

\* Mutant: the rotated token is stored without deactivating the old ones.
MutRefreshRotateNoDeactivate(s, resp, time, f, k) ==
    IF ~Running(s) \/ ~Truthy(resp.refresh_token) THEN s
    ELSE LET picked == [s EXCEPT !.ret = resp.refresh_token]
         IN  IF f \in {5, 6} THEN Fail(picked, k, "tokens")
             ELSE [picked EXCEPT !.db.tokens =
                      CreateRefreshToken(@, s.userId, resp.refresh_token, time)]

\* Mutant: the test is `refresh_token !== undefined`, so "" rotates too.
MutRefreshRotateOnDefined(s, resp, time, f, k) ==
    IF ~Running(s) \/ resp.refresh_token = Undefined THEN s
    ELSE LET picked == [s EXCEPT !.ret = resp.refresh_token]
         IN  IF f = 5 THEN Fail(picked, k, "tokens")
             ELSE LET off == DeactivateRefreshTokens(s.db.tokens, s.userId)
                  IN  IF f = 6 THEN Fail([picked EXCEPT !.db.tokens = off], k, "tokens")
                      ELSE [picked EXCEPT !.db.tokens =
                               CreateRefreshToken(off, s.userId, resp.refresh_token, time)]

\* if (newTokenSet.refresh_token) { deactivateRefreshTokens; createRefreshToken }
RefreshRotate(s, resp, time, f, k) ==
    IF ~Running(s) \/ ~Truthy(resp.refresh_token) THEN s
    ELSE LET picked == [s EXCEPT !.ret = resp.refresh_token]
         IN  IF f = 5 THEN Fail(picked, k, "tokens")
             ELSE LET off == DeactivateRefreshTokens(s.db.tokens, s.userId)
                  IN  IF f = 6 THEN Fail([picked EXCEPT !.db.tokens = off], k, "tokens")
                      ELSE [picked EXCEPT !.db.tokens =
                               CreateRefreshToken(off, s.userId, resp.refresh_token, time)]

\* generateJwtToken(...)
RefreshMint(s, f, k) ==
    IF ~Running(s) THEN s
    ELSE IF f = 7 THEN Fail(s, k, "jwt")
    ELSE s

\* Mutant: UserNotFoundException is missing from the rethrown kinds.
MutRefreshCatchNoUserNotFound(s) ==
    IF Running(s) THEN s
    ELSE IF s.err \in {Expired, Invalid} THEN s
    ELSE Throw(s, UnexpectedRefresh)

\* catch (error): the three named kinds are rethrown, anything else replaced.
RefreshCatch(s) ==
    IF Running(s) THEN s
    ELSE IF s.err \in {Expired, UserNotFound, Invalid} THEN s
    ELSE Throw(s, UnexpectedRefresh)

\* Mutant: last_used_on is stamped before the provider is called.
MutRefreshTryTouchFirst(db, time, row, userId, resp, f, k) ==
    RefreshMint(RefreshRotate(RefreshFindUser(RefreshCallProvider(RefreshTouch(
        RefreshExpiry(Start(db), row, userId, time, f, k),
        row, time, f, k), resp, f, k), resp, f, k), resp, time, f, k), f, k)

RefreshTry(db, time, row, userId, resp, f, k) ==
    RefreshMint(RefreshRotate(RefreshFindUser(RefreshTouch(RefreshCallProvider(
        RefreshExpiry(Start(db), row, userId, time, f, k),
        resp, f, k), row, time, f, k), resp, f, k), resp, time, f, k), f, k)

refreshGoogleAccessToken(db, time, row, userId, resp, f, k) ==
    RefreshCatch(RefreshTry(db, time, row, userId, resp, f, k))

\* ------------------------------------------------ revokeRefreshToken
\* await googleClient.revoke(refreshToken)
RevokeTry(db, f, k) ==
    LET called == [Start(db) EXCEPT !.nRevoke = @ + 1]
    IN  IF f = 1 THEN Fail(called, k, "provider") ELSE called

\* Mutant: every error of the provider is replaced, the invalid-token one too.
MutRevokeCatchWrapAll(s) ==
    IF Running(s) THEN s ELSE Throw(s, LogoutFailed)

\* catch: InvalidRefreshTokenException is rethrown, anything else replaced.
RevokeCatch(s) ==
    IF Running(s) THEN s
    ELSE IF s.err = Invalid THEN s
    ELSE Throw(s, LogoutFailed)

revokeRefreshToken(db, f, k) == RevokeCatch(RevokeTry(db, f, k))

\* ------------------------------------------------ createGoogleSsoUser
\* googleClient.refresh, jwtService.decode, decodedToken.payload.email
\* (a missing token set or an undecodable id token is a TypeError).
RegisterCallProvider(s, resp, f, k) ==
    LET called == [s EXCEPT !.nRefresh = @ + 1]
    IN  IF f = 1 THEN Fail(called, k, "provider")
        ELSE IF ~resp.set \/ resp.email = Undefined THEN Throw(called, Other)
        ELSE called

\* UserService.createUser: a new user, refused when the email is taken.
CreateUser(s, email) == [s EXCEPT !.db.users = @ \cup {email}, !.userId = email]

RegisterCreateUser(s, resp, f, k) ==
    IF ~Running(s) THEN s
    ELSE IF f = 2 THEN Fail(s, k, "users")
    ELSE IF resp.email \in s.db.users THEN Fail(s, Other, "users")
    ELSE CreateUser(s, resp.email)

\* plainToClass(GoogleUserDto, decodedToken.payload): every claim of the id
\* token's payload is copied; `claims` holds the ones besides email and
\* email_verified, where the provider's answer carries any.
DecodedPayload(resp) ==
    LET more == IF "claims" \in DOMAIN resp THEN DOMAIN resp.claims ELSE {}
    IN  [x \in {"email", "email_verified"} \cup more |->
            IF x = "email" THEN resp.email
            ELSE IF x = "email_verified" THEN resp.email_verified
            ELSE resp.claims[x]]

\* createGoogleSso, createUserVerification
RegisterLink(s, resp, f, k) ==
    IF ~Running(s) THEN s
    ELSE IF f = 3 THEN Fail(s, k, "sso")
    ELSE LET linked == [s EXCEPT !.db.sso = UpsertGoogleSso(
                            @, s.userId, SanitizedJson(RawJson(DecodedPayload(resp))))]
         IN  IF f = 4 THEN Fail(linked, k, "verification")
             ELSE [linked EXCEPT !.db.verification[s.userId] = "pending"]

\* email_verified ? markEmailVerified : sendUserVerificationEmail
RegisterVerify(s, resp, f, k) ==
    IF ~Running(s) THEN s
    ELSE IF f = 5 THEN Fail(s, k, "verification")
    ELSE IF resp.email_verified = "true"
         THEN [s EXCEPT !.db.verification[s.userId] = "verified"]
         ELSE [s EXCEPT !.db.mails[s.userId] = @ + 1]

\* the (Registration, Success) event
RegisterLog(s, f, k) ==
    IF ~Running(s) THEN s
    ELSE IF f = 6 THEN Fail(s, k, "audit")
    ELSE [s EXCEPT !.db.audit = LogAuthenticationEvent(
              @, s.userId, "Registration", "Success", NoMessage, NoId)]

\* refreshToken = newTokenSet.refresh_token ?? refreshToken; createRefreshToken;
\* generateJwtToken
RegisterStoreToken(s, rt, resp, time, f, k) ==
    IF ~Running(s) THEN s
    ELSE LET token == IF resp.refresh_token = Undefined THEN rt ELSE resp.refresh_token
         IN  IF f = 7 THEN Fail(s, k, "tokens")
             ELSE LET stored == [s EXCEPT !.db.tokens =
                                    CreateRefreshToken(@, s.userId, token, time)]
                  IN  IF f = 8 THEN Fail(stored, k, "jwt")
                      ELSE [stored EXCEPT !.ret = token]

createGoogleSsoUser(db, time, rt, resp, f, k) ==
    RegisterStoreToken(RegisterLog(RegisterVerify(RegisterLink(RegisterCreateUser(
        RegisterCallProvider(Start(db), resp, f, k),
        resp, f, k), resp, f, k), resp, f, k), f, k), rt, resp, time, f, k)

\* ------------------------------------------------------------ inputs
\* GoogleUserDto of googleLogin: email, emailVerified and, possibly, an
\* access_token field (absent, holding undefined, or holding a token).
GoogleUsers ==
    LET base(e, v) == [x \in {"email", "emailVerified"} |-> IF x = "email" THEN e ELSE v]
    IN  UNION {{base(e, v), base(e, v) @@ ("access_token" :> Undefined),
                base(e, v) @@ ("access_token" :> "at")} :
               <<e, v>> \in Users \X {"true", "false"}}

\* The refreshToken string argument of googleLogin and createGoogleSsoUser.
TokenArgs == Tokens \cup {""}

TokenSets == [set : {TRUE}, access_token : {Undefined, "", "at"},
              refresh_token : Tokens \cup {Undefined, ""},
              email : Users \cup {Undefined}, email_verified : {"true", "false"}]
Responses == TokenSets \cup {NoTokenSet}

\* ================================================ authenticateUserMiddleware
\* src/authenticate-user.middleware.ts.  A string is the sequence of its
\* pieces, "=" being a piece of its own where the code splits on it.  Cookies
\* and headers are functions from names to values.

\* Names of the user-session cookies, of the patient-session cookie and of
\* the two cookies the middleware sets.
SessionNames == {<<"s">>, <<"t">>}
PatientCookie == <<"patient">>
LoggedUser == <<"logged-user">>
AuthToken == <<"authToken">>
\* `user-${sessionId}`
Marker(name) == <<"user-">> \o name
\* Values of a session cookie; a value may hold "=".
SessionValues == {<<"v">>, <<"w">>, <<"v", "=", "w">>}
\* The session id string the backend returns with a User: <name>=<value>.
Join(name, value) == name \o <<"=">> \o value

\* str.split('=')
RECURSIVE Split(_)
Split(str) ==
    IF \A i \in 1..Len(str) : str[i] # "="
    THEN <<str>>
    ELSE LET i == CHOOSE j \in 1..Len(str) :
                     str[j] = "=" /\ \A h \in 1..(j - 1) : str[h] # "="
         IN  <<SubSeq(str, 1, i - 1)>> \o Split(SubSeq(str, i + 1, Len(str)))

NoCookies == <<>>
\* maxAge: 60
MarkerMaxAge == 60
\* The options every cookie is set with; maxAge 0 stands for none given.
Cookie(value, maxAge) ==
    [value |-> value, path |-> "/", httpOnly |-> FALSE, secure |-> TRUE,
     sameSite |-> "lax", maxAge |-> maxAge]

\* A response: NextResponse.next() or a redirect, the cookies and headers it
\* sets and the ones it deletes.  "none" is the middleware returning nothing.
NoResponse == [kind |-> "none", location |-> Undefined, cookies |-> NoCookies,
               deleted |-> {}, headers |-> NoCookies, headersDeleted |-> {}]
NextResponse == [NoResponse EXCEPT !.kind = "next"]
\* response.cookies.set / delete, response.headers.set / delete
SetCookie(response, name, cookie) ==
    [response EXCEPT !.cookies = (name :> cookie) @@ @, !.deleted = @ \ {name}]
DeleteCookie(response, name) ==
    [response EXCEPT !.cookies = Restrict(@, DOMAIN @ \ {name}), !.deleted = @ \cup {name}]
SetHeader(response, name, value) ==
    [response EXCEPT !.headers = (name :> value) @@ @, !.headersDeleted = @ \ {name}]
DeleteHeader(response, name) ==
    [response EXCEPT !.headers = Restrict(@, DOMAIN @ \ {name}),
                     !.headersDeleted = @ \cup {name}]

\* ./helpers: the user-session cookies of the request, and whether it has a
\* patient-session cookie.
getUserSessionCookies(cookies) == DOMAIN cookies \cap SessionNames
getPatientSessionCookie(cookies) == PatientCookie \in DOMAIN cookies

\* Mutant: the first test reads || for &&.
MutCookiesHasFetchedActorOr(cookies) ==
    LET userSessionCookies == getUserSessionCookies(cookies)
    IN  IF Cardinality(userSessionCookies) < 1 \/ ~getPatientSessionCookie(cookies)
        THEN FALSE
        ELSE /\ Cardinality(userSessionCookies) = 1
             /\ \E n \in userSessionCookies :
                   Marker(n) \in DOMAIN cookies /\ cookies[Marker(n)] = cookies[n]

cookiesHasFetchedActor(cookies) ==
    LET userSessionCookies == getUserSessionCookies(cookies)
    IN  IF Cardinality(userSessionCookies) < 1 /\ ~getPatientSessionCookie(cookies)
        THEN FALSE
        ELSE /\ Cardinality(userSessionCookies) = 1
             /\ \E n \in userSessionCookies :
                   Marker(n) \in DOMAIN cookies /\ cookies[Marker(n)] = cookies[n]

clearSessionCookies ==
    DeleteHeader(DeleteHeader(DeleteCookie(DeleteCookie(NextResponse,
        LoggedUser), AuthToken), LoggedUser), AuthToken)

\* @/utils/type-guards.util
isUser(me) == me.typename = "User"
\* actor.me.language === 'nb' ? 'no' : actor.me.language
Preferred(language) == IF language = "nb" THEN "no" ELSE language

\* Mutant: the path's language is compared with the language as stored.
MutUserNeedsLangRedirectRaw(actor, request) ==
    /\ isUser(actor.me)
    /\ LoggedUser \notin DOMAIN request.cookies
    /\ request.lang # actor.me.language

\* request: its cookies and the language prefix of its path.
userNeedsLangRedirect(actor, request) ==
    /\ isUser(actor.me)
    /\ LoggedUser \notin DOMAIN request.cookies
    /\ request.lang # Preferred(actor.me.language)

redirectToUserLang(user, request) ==
    [NoResponse EXCEPT !.kind = "redirect", !.location = Preferred(user.language)]

\* ./helpers removeNonValidSessions: the session cookies found not valid
\* (`gone`) are deleted from the response.
RECURSIVE removeNonValidSessions(_, _)
removeNonValidSessions(gone, response) ==
    IF gone = {} THEN response
    ELSE LET n == CHOOSE n \in gone : TRUE
         IN  removeNonValidSessions(gone \ {n}, DeleteCookie(response, n))

\* const [sessionId, sessionValue] = userSessionId.split('='); the marker
\* cookie.  A value that is undefined is set as the text "undefined".
markSessionFetched(userSessionId, response) ==
    LET parts == Split(userSessionId)
        sessionId == parts[1]
        sessionValue == IF Len(parts) > 1 THEN parts[2] ELSE <<Undefined>>
    IN  SetCookie(response, Marker(sessionId), Cookie(sessionValue, MarkerMaxAge))

\* JSON.stringify(loggedUser.me)
JsonStringify(me) == <<"{", me.typename, me.language, "}">>

\* Mutant: the session is marked fetched for every actor.
MutSetActorCookiesMarkAll(loggedUser, request, gone) ==
    LET response == IF userNeedsLangRedirect(loggedUser, request)
                    THEN redirectToUserLang(loggedUser.me, request)
                    ELSE NextResponse
        marked == markSessionFetched(loggedUser.sessionId,
                                     removeNonValidSessions(gone, response))
        meStr == JsonStringify(loggedUser.me)
    IN  SetHeader(SetHeader(SetCookie(SetCookie(marked,
            LoggedUser, Cookie(meStr, 0)), AuthToken, Cookie(loggedUser.token, 0)),
            LoggedUser, meStr), AuthToken, loggedUser.token)

\* Mutant: the logged-user header is given the token.
MutSetActorCookiesHeaderToken(loggedUser, request, gone) ==
    LET response == IF userNeedsLangRedirect(loggedUser, request)
                    THEN redirectToUserLang(loggedUser.me, request)
                    ELSE NextResponse
        marked == IF isUser(loggedUser.me)
                  THEN markSessionFetched(loggedUser.sessionId,
                                          removeNonValidSessions(gone, response))
                  ELSE response
        meStr == JsonStringify(loggedUser.me)
    IN  SetHeader(SetHeader(SetCookie(SetCookie(marked,
            LoggedUser, Cookie(meStr, 0)), AuthToken, Cookie(loggedUser.token, 0)),
            LoggedUser, loggedUser.token), AuthToken, loggedUser.token)

setActorCookies(loggedUser, request, gone) ==
    LET response == IF userNeedsLangRedirect(loggedUser, request)
                    THEN redirectToUserLang(loggedUser.me, request)
                    ELSE NextResponse
        marked == IF isUser(loggedUser.me)
                  THEN markSessionFetched(loggedUser.sessionId,
                                          removeNonValidSessions(gone, response))
                  ELSE response
        meStr == JsonStringify(loggedUser.me)
    IN  SetHeader(SetHeader(SetCookie(SetCookie(marked,
            LoggedUser, Cookie(meStr, 0)), AuthToken, Cookie(loggedUser.token, 0)),
            LoggedUser, meStr), AuthToken, loggedUser.token)

\* What fetchLoggedInUserInfo gives back: an error, no actor, or an actor.
FetchError == [kind |-> "error"]
FetchNobody == [kind |-> "nobody"]
\* The middleware: whether it fetched, and its response.
authenticateUserMiddleware(request, fetch, gone) ==
    IF cookiesHasFetchedActor(request.cookies)
    THEN [fetched |-> FALSE, response |-> NoResponse]
    ELSE IF fetch.kind = "error" THEN [fetched |-> TRUE, response |-> NoResponse]
    ELSE IF fetch.kind = "nobody"
         THEN [fetched |-> TRUE, response |-> clearSessionCookies]
         ELSE [fetched |-> TRUE, response |-> setActorCookies(fetch, request, gone)]

\* No request was made yet.
NoRequest == [cookies |-> NoCookies, lang |-> "en",
              fetched |-> FALSE, fetch |-> FetchNobody]
NoTraffic == jar = NoCookies /\ seen = NoRequest /\ reply = NoResponse

\* ------------------------------------- request context (part_002)
\* null, and a property of the request that is not set.
Null == [null |-> TRUE]
\* The roles a user may hold, and those that make a customers' admin.
Roles == {"CustomerAdmin", "Employee"}
RolesCustomerAdmin == {"CustomerAdmin"}
hasOneOfTheRoles(roles, wanted) == roles \cap wanted # {}

\* What a function came to: a value, or the error it threw.
Value(v) == [err |-> Ok, val |-> v]
Raise(e) == [err |-> e, val |-> Null]
NotCalled == [err |-> "not called", val |-> Null]

isCustomersAdmin(user) ==
    IF user.null THEN FALSE ELSE hasOneOfTheRoles(user.roles, RolesCustomerAdmin)

\* z.enum(['en', 'no']).catch('no').parse(headers['accept-language'] ?? '')
getLang(headers) ==
    IF headers.acceptLanguage \in {"en", "no"} THEN headers.acceptLanguage ELSE "no"

\* String.prototype.replace with a string pattern: the first occurrence.
ReplaceFirst(s, b) ==
    LET hits == {i \in 1..(Len(s) - Len(b) + 1) : SubSeq(s, i, i + Len(b) - 1) = b}
    IN  IF b = <<>> \/ hits = {} THEN s
        ELSE LET i == CHOOSE h \in hits : \A g \in hits : h <= g
             IN  SubSeq(s, 1, i - 1) \o SubSeq(s, i + Len(b), Len(s))

\* The headers as read with ?? '': an absent header is the empty string.
getPathname(headers) == ReplaceFirst(headers.pageUrl, headers.origin)

\* Mutant: a request with a user and a patient keeps its patient.
MutGetExtendedRequestAuthContextBoth(req) ==
    IF req.windowId \notin {"string", Undefined} THEN Raise("ZodError")
    ELSE LET context == [lang |-> getLang(req.headers),
                         pathname |-> getPathname(req.headers),
                         windowId |-> req.windowId]
         IN  IF ~req.user.null
             THEN Value([defined |-> TRUE, context |-> context,
                         user |-> [null |-> FALSE, roles |-> req.user.roles,
                                   sessionId |-> IF req.sessionId = Undefined
                                                 THEN "" ELSE req.sessionId,
                                   isCustomersAdmin |-> isCustomersAdmin(req.user)],
                         patient |-> req.patient])
             ELSE IF ~req.patient.null
             THEN Value([defined |-> TRUE, context |-> context,
                         user |-> Null, patient |-> req.patient])
             ELSE Value([defined |-> FALSE])

\* A value's windowId passes z.string().optional() when it is a string or
\* undefined; anything else makes parse throw.
getExtendedRequestAuthContext(req) ==
    IF req.windowId \notin {"string", Undefined} THEN Raise("ZodError")
    ELSE LET context == [lang |-> getLang(req.headers),
                         pathname |-> getPathname(req.headers),
                         windowId |-> req.windowId]
         IN  IF ~req.user.null
             THEN Value([defined |-> TRUE, context |-> context,
                         user |-> [null |-> FALSE, roles |-> req.user.roles,
                                   sessionId |-> IF req.sessionId = Undefined
                                                 THEN "" ELSE req.sessionId,
                                   isCustomersAdmin |-> isCustomersAdmin(req.user)],
                         patient |-> Null])
             ELSE IF ~req.patient.null
             THEN Value([defined |-> TRUE, context |-> context,
                         user |-> Null, patient |-> req.patient])
             ELSE Value([defined |-> FALSE])

getAuthContext(req) ==
    LET ext == getExtendedRequestAuthContext(req)
    IN  IF ext.err # Ok THEN ext
        ELSE IF ~ext.val.defined THEN Raise("Error")
        ELSE IF ext.val.user.null /\ ext.val.patient.null THEN Raise("Error")
        ELSE ext

getContextUser(req) ==
    LET auth == getAuthContext(req)
    IN  IF auth.err # Ok THEN auth
        ELSE IF auth.val.user.null THEN Raise("UnauthorizedException")
        ELSE Value(auth.val.user)

getContextPatient(req) ==
    LET auth == getAuthContext(req)
    IN  IF auth.err # Ok THEN auth
        ELSE IF auth.val.patient.null THEN Raise("UnauthorizedException")
        ELSE Value(auth.val.patient)

\* No backend request was made.
NoReq == [user |-> Null, patient |-> Null, sessionId |-> Undefined,
          windowId |-> Undefined,
          headers |-> [acceptLanguage |-> Undefined, pageUrl |-> <<>>, origin |-> <<>>]]
NoCtx == [req |-> NoReq, auth |-> NotCalled, user |-> NotCalled, patient |-> NotCalled]

\* ------------------------- feedback widget: construction and removal
\* How many widgets are constructed, and how many document listeners bound.
MaxWidgets == 2
MaxListeners == 3

\* CONFIG.WIDGET_ID, and the ids a caller's config may put in its place:
\* the constructor spreads the caller's config over CONFIG.
CONFIG_WIDGET_ID == "feedback-widget"
WidgetIds == {CONFIG_WIDGET_ID, "side-widget"}

\* A widget as constructed: its config's id, and its host element: none
\* made, in the document, or removed from it.
NewWidget(id) == [WIDGET_ID |-> id, host |-> "none"]

\* document.getElementById(this.config.WIDGET_ID) !== null
isAlreadyInitialized(pg, i) == pg.hosts[pg.widgets[i].WIDGET_ID] > 0

createWidget(pg, i) ==
    [pg EXCEPT !.hosts[pg.widgets[i].WIDGET_ID] = @ + 1,
               !.widgets[i].host = "attached"]

\* Of the listeners bound only the document's outlives the host element.
bindEvents(pg, i) == [pg EXCEPT !.listeners = @ + 1]

\* Mutant: init without the existence check.
MutInitUnguarded(pg, i) == bindEvents(createWidget(pg, i), i)

init(pg, i) ==
    IF isAlreadyInitialized(pg, i) THEN pg
    ELSE bindEvents(createWidget(pg, i), i)

\* new FeedbackWidget(config), which global.FeedbackWidget.init(config) is.
FeedbackWidget(pg, id) ==
    LET made == [pg EXCEPT !.widgets = Append(@, NewWidget(id))]
    IN  init(made, Len(made.widgets))

destroy(pg, i) ==
    IF pg.widgets[i].host = "attached"
    THEN [pg EXCEPT !.hosts[pg.widgets[i].WIDGET_ID] = @ - 1,
                    !.widgets[i].host = "detached"]
    ELSE pg

\* What the last call did: whether an element with the id of the widget it
\* ran on was in the document before it, and whether it made an element and
\* bound a document listener.
NoCallYet == [op |-> "none", existed |-> FALSE,
              created |-> FALSE, bound |-> FALSE]
Did(op, id, pg, after) ==
    [after EXCEPT !.made =
        [op |-> op,
         existed |-> pg.hosts[id] > 0,
         created |-> after.hosts # pg.hosts,
         bound |-> after.listeners # pg.listeners]]

\* The document before the script ran; auto is the script's last statement:
\* not scheduled, pending, or run to the TypeError it ends in.
NoPage == [hosts |-> [w \in WidgetIds |-> 0], listeners |-> 0,
           widgets |-> <<>>, auto |-> "none", made |-> NoCallYet]

\* ------------------------------------- feedback widget: submission
\* How many handleSubmit calls are accepted.
MaxSubmits == 2

MIN_MESSAGE_LENGTH == 5
MAX_MESSAGE_LENGTH == 1000
RETRY_ATTEMPTS == 3
RETRY_DELAY == 1000

\* utils.validateMessage on the trimmed text of the textarea, by its length.
validateMessage(len) == len >= MIN_MESSAGE_LENGTH /\ len <= MAX_MESSAGE_LENGTH

\* One accepted handleSubmit and the submitWithRetry frames it went through:
\* the attempt of the innermost frame, where that frame stands (awaiting its
\* request, asleep in its catch block, done), the requests sent, the sleeps
\* asked for, the request that first succeeded (0: none), the calls of
\* handleSubmitSuccess and handleSubmitError, and state.isSubmitting as the
\* last frame left it.
NewChain == [attempt |-> 1, pc |-> "start", sent |-> 0, waits |-> <<>>,
             okAt |-> 0, success |-> 0, errors |-> 0, left |-> FALSE]

setSubmittingState(f, isSubmitting) == [f EXCEPT !.isSubmitting = isSubmitting]

\* showSuccess and showError hide both messages and show one.
showSuccess(f) == [f EXCEPT !.message = "success"]
showError(f, what) == [f EXCEPT !.message = what]

\* submitFeedback up to its await: the request is sent.
submitFeedback(f, c) ==
    [f EXCEPT !.chains[c].sent = @ + 1, !.chains[c].pc = "request"]

handleSubmitSuccess(f, c) == [showSuccess(f) EXCEPT !.chains[c].success = @ + 1]
handleSubmitError(f, c) == [showError(f, "error") EXCEPT !.chains[c].errors = @ + 1]

\* The finally block of the frame that ends the chain.
Finally(f, c) ==
    LET g == setSubmittingState(f, FALSE)
    IN  [g EXCEPT !.chains[c].pc = "done", !.chains[c].left = g.isSubmitting]

\* submitWithRetry from its entry to the await of its request.
submitWithRetry(f, c) == submitFeedback(setSubmittingState(f, TRUE), c)

\* The catch block: asleep before the retry, or the error handled.
Catch(f, c) ==
    IF f.chains[c].attempt < RETRY_ATTEMPTS
    THEN [f EXCEPT !.chains[c].pc = "sleep",
                   !.chains[c].waits = Append(@, RETRY_DELAY * f.chains[c].attempt)]
    ELSE Finally(handleSubmitError(f, c), c)

\* The request's promise settles: fulfilled with an ok response, or rejected
\* (no response, a response that is not ok, an abort, the timeout winning the
\* race).  handleSubmitSuccess runs inside the try block, so config.onSuccess
\* throwing lands in the catch block as a failed request does.
Settled(f, c, ok) ==
    IF ok
    THEN LET g == [handleSubmitSuccess(f, c) EXCEPT
                      !.chains[c].okAt = IF @ = 0 THEN f.chains[c].sent ELSE @]
         IN  IF f.onSuccess = "throws" THEN Catch(g, c) ELSE Finally(g, c)
    ELSE Catch(f, c)

\* The sleep is over: return this.submitWithRetry(message, attempt + 1) runs
\* the next frame up to its await, and then this frame's finally block.
Retry(f, c) ==
    setSubmittingState(
        submitWithRetry([f EXCEPT !.chains[c].attempt = @ + 1], c), FALSE)

handleSubmit(f, len) ==
    IF f.isSubmitting THEN f
    ELSE IF ~validateMessage(len) THEN showError(f, "invalid")
    ELSE submitWithRetry([f EXCEPT !.chains = Append(@, NewChain)],
                         Len(f.chains) + 1)

\* The requests sent and not settled: those awaited, and those the timeout
\* rejected for, which are not aborted.
InFlight(f) ==
    f.stale + Cardinality({c \in DOMAIN f.chains : f.chains[c].pc = "request"})

\* The widget constructed: nothing submitted.
NoForm == [isSubmitting |-> FALSE, chains |-> <<>>, stale |-> 0,
           message |-> "none", onSuccess |-> "none"]

\* ---------------------------------- statistics: GetStatisticsEffectUseCase
\* How many effects the repository returns.
MaxEffects == 2

\* An effect's patientId that is null.
NoPatientId == 0 - 1

\* getDatesForRange and formatDatesForChartLabels: the periods of the range,
\* and a label for each.
Periods == {"p1", "p2"}
getDatesForRange(input) == input.range
formatDatesForChartLabels(rangeDates) ==
    [i \in 1..Len(rangeDates) |-> <<"label", rangeDates[i]>>]

\* Math.ceil((count / of) * 100)
CeilPercent(count, of) == (count * 100 + of - 1) \div of

getEffectsData(effects) ==
    LET effectsWithCaseness == SelectSeq(effects, LAMBDA e : e.caseness # 0)
        countCaseness == Len(effectsWithCaseness)
        countRecovered ==
            Len(SelectSeq(effectsWithCaseness, LAMBDA e : e.recovered # 0))
        countReliablyImproved ==
            Len(SelectSeq(effectsWithCaseness, LAMBDA e : e.reliablyimproved # 0))
    IN  [recoveryRate |-> IF countCaseness > 0
                          THEN CeilPercent(countRecovered, countCaseness) ELSE 0,
         reliablyImproved |-> IF countCaseness > 0
                              THEN CeilPercent(countReliablyImproved, countCaseness) ELSE 0]

\* The effects of one period; a period without effects has no entry, and
\* its data is 0.
GroupOf(effects, period) == SelectSeq(effects, LAMBDA e : e.period = period)
Chart(effects, rangeDates) ==
    LET data(field) ==
            [i \in 1..Len(rangeDates) |->
                IF GroupOf(effects, rangeDates[i]) = <<>> THEN 0
                ELSE getEffectsData(GroupOf(effects, rangeDates[i]))[field]]
    IN  [labels |-> formatDatesForChartLabels(rangeDates),
         datasets |-> <<[label |-> "Recovery Rate", data |-> data("recoveryRate")],
                        [label |-> "Reliably Improved", data |-> data("reliablyImproved")]>>]

\* e.code && e.patientId
HasPatient(e) == e.code \notin {"null", ""} /\ e.patientId \notin {NoPatientId, 0}
Patient(e) == [code |-> e.code, patientId |-> e.patientId]
RECURSIVE PatientsOf(_)
PatientsOf(effects) ==
    IF effects = <<>> THEN <<>>
    ELSE (IF HasPatient(Head(effects)) THEN <<Patient(Head(effects))>> ELSE <<>>)
         \o PatientsOf(Tail(effects))

\* Mutant: the patients are returned to every caller.
MutExecuteDiscloses(input, user, effects) ==
    [query |-> [includePatients |-> user.isCustomersAdmin],
     chart |-> Chart(effects, getDatesForRange(input)),
     patients |-> PatientsOf(effects)]

\* execute, with the effects the repository returns to its query.
execute(input, user, effects) ==
    [query |-> [includePatients |-> user.isCustomersAdmin],
     chart |-> Chart(effects, getDatesForRange(input)),
     patients |-> IF user.isCustomersAdmin THEN PatientsOf(effects) ELSE <<>>]

\* execute was not called.
NotRun == [query |-> [includePatients |-> FALSE], chart |-> <<>>, patients |-> <<>>,
           run |-> FALSE]
Ran(result) == [query |-> result.query, chart |-> result.chart,
                patients |-> result.patients, run |-> TRUE]
NoStats == [effects |-> <<>>, input |-> [range |-> <<>>],
            admin |-> NotRun, other |-> NotRun]

\* ------------------------------------------------------------- Button
ButtonStates == {"enabled", "hovered", "pressed", "disabled"}

\* useState's initial value.
NoInteraction == [isHovered |-> FALSE, isPressed |-> FALSE,
                  isEntering |-> FALSE, isLeaving |-> FALSE]

\* buttonState, computed at each render from the state rendered and the prop.
buttonState(interactionState, state) ==
    IF interactionState.isPressed THEN "pressed"
    ELSE IF interactionState.isHovered /\ state = "enabled" THEN "hovered"
    ELSE state

\* The handlers: each tests the interactionState of the render it was made
\* in, and hands setInteractionState an updater that React applies to the
\* latest state (prevState).
\* Mutant: leaving does not end entering.
MutHandleMouseLeaveKeepsEntering(interactionState, prevState) ==
    IF interactionState.isHovered /\ ~interactionState.isLeaving
    THEN [prevState EXCEPT !.isHovered = FALSE, !.isPressed = FALSE,
                           !.isLeaving = TRUE]
    ELSE prevState

handleMouseEnter(interactionState, prevState) ==
    IF ~interactionState.isHovered /\ ~interactionState.isEntering
    THEN [prevState EXCEPT !.isHovered = TRUE, !.isEntering = TRUE,
                           !.isLeaving = FALSE]
    ELSE prevState

handleMouseLeave(interactionState, prevState) ==
    IF interactionState.isHovered /\ ~interactionState.isLeaving
    THEN [prevState EXCEPT !.isHovered = FALSE, !.isPressed = FALSE,
                           !.isEntering = FALSE, !.isLeaving = TRUE]
    ELSE prevState

handleAnimationEnd(interactionState, prevState) ==
    [prevState EXCEPT !.isLeaving = FALSE, !.isEntering = FALSE]

handleMouseDown(interactionState, prevState) == [prevState EXCEPT !.isPressed = TRUE]

handleMouseUp(interactionState, prevState) == [prevState EXCEPT !.isPressed = FALSE]

\* A render with the state prop given: the latest state is the one the
\* handlers close over, and buttonState is computed from it.
Render(b, state) ==
    [state |-> state, rendered |-> b.latest, latest |-> b.latest,
     shown |-> buttonState(b.latest, state)]

\* The first render, with the default prop.
NoButton == [state |-> "enabled", rendered |-> NoInteraction,
             latest |-> NoInteraction, shown |-> "enabled"]

\* ------------------------------------------ PasswordResetRequestModal
\* The cooldown in seconds (shared/constants, scaled down), and how many
\* forgotPassword requests are followed.
EMAIL_RESEND_TIME_LIMIT_SECONDS == 3
MaxRequests == 3

\* The component's state as last rendered (isResendButtonDisabled, timer,
\* resendLimitReached), whether the countdown interval runs, the
\* isResendButtonDisabled of the render whose effect ran last ("unmounted"
\* before the first), the forgotPassword requests sent and those not yet
\* answered, the getEmailCount calls not yet answered, what the last
\* request was sent on, and whether one was sent while the button was
\* disabled.
NoModal == [isResendButtonDisabled |-> FALSE, timer |-> 0,
            resendLimitReached |-> FALSE, countdown |-> FALSE,
            dep |-> "unmounted", requests |-> 0, awaiting |-> 0,
            counting |-> 0, cause |-> "none", sentDisabled |-> FALSE]

\* handleResendEmail up to its await, called on `cause`.
handleResendEmail(m, cause) ==
    IF m.isResendButtonDisabled THEN m
    ELSE [m EXCEPT !.isResendButtonDisabled = TRUE,
                   !.timer = EMAIL_RESEND_TIME_LIMIT_SECONDS,
                   !.countdown = TRUE,
                   !.requests = @ + 1, !.awaiting = @ + 1,
                   !.cause = cause]

\* The interval's callback: setTimer's updater.
Countdown(m) ==
    IF m.timer <= 1
    THEN [m EXCEPT !.countdown = FALSE, !.isResendButtonDisabled = FALSE, !.timer = 0]
    ELSE [m EXCEPT !.timer = @ - 1]

\* handleResendEmail is made anew when isResendButtonDisabled changes, and
\* the effect depends on it: it is due after the first render and after
\* every render with another isResendButtonDisabled than its last run saw.
EffectDue(m) ==
    m.dep = "unmounted" \/ (m.dep = "disabled") # m.isResendButtonDisabled

\* fetchEmailCount up to its await.
fetchEmailCount(m) == [m EXCEPT !.counting = @ + 1]

\* The effect: void handleResendEmail(); void fetchEmailCount().
Effect(m) ==
    LET ran == [m EXCEPT !.dep = IF m.isResendButtonDisabled
                                 THEN "disabled" ELSE "enabled"]
    IN  fetchEmailCount(
            handleResendEmail(ran, IF m.dep = "unmounted" THEN "mount" ELSE "cooldown"))

\* The resend button's onClick: () => void handleResendEmail, which names
\* the function and does not call it.
onClick(m) == m

\* The repository's other programs have not run.
NoContextYet == ctx = NoCtx
NoWidgetYet == page = NoPage
NoSubmitYet == form = NoForm
NoStatsYet == stats = NoStats
NoButtonYet == button = NoButton
NoModalYet == modal = NoModal
Untouched ==
    NoContextYet /\ NoWidgetYet /\ NoSubmitYet /\ NoStatsYet /\ NoButtonYet /\ NoModalYet

\* ------------------------------------------------------------- state
\* The processes that run refreshGoogleAccessToken concurrently.
Procs == {"p1", "p2"}
\* A call in flight: the awaited call it is suspended at (pc), its arguments
\* (the stored token's row, the user id), the provider's answer, the method's
\* locals (s, without the stores) and the row its createRefreshToken made.
IdleProc == [pc |-> "idle", row |-> NoId, userId |-> NoUser, resp |-> NoTokenSet,
             s |-> [Start(<<>>) EXCEPT !.db = <<>>], made |-> NoId]
\* No call is in flight.
NoProcs == [p \in Procs |-> IdleProc]

NoCall == [op |-> "none", who |-> NoUser, tok |-> Undefined, row |-> NoId,
           expired |-> FALSE, issued |-> Undefined, email |-> Undefined,
           asserted |-> Undefined, raised |-> Ok, by |-> "none",
           outcome |-> Ok, ret |-> Undefined, resolved |-> NoUser,
           nRefresh |-> 0, nRevoke |-> 0, nEvents |-> 0]

\* The call that just ran to completion: `t` the method's state at the end
\* of its try block, `r` at its return or throw; `asserted` is the
\* emailVerified of the payload googleLogin was given.
Done(op, who, tok, row, expired, issued, email, asserted, t, r) ==
    [op |-> op, who |-> who, tok |-> tok, row |-> row, expired |-> expired,
     issued |-> issued, email |-> email, asserted |-> asserted, raised |-> t.err, by |-> t.by,
     outcome |-> r.err,
     ret |-> IF r.err = Ok THEN r.ret ELSE Undefined, resolved |-> r.userId,
     nRefresh |-> r.nRefresh, nRevoke |-> r.nRevoke,
     nEvents |-> Len(r.db.audit)]

\* The call's writes reach the stores, and the call is the last one made.
Returned(r, call) ==
    /\ users' = r.db.users
    /\ verification' = r.db.verification
    /\ tokens' = r.db.tokens
    /\ sso' = r.db.sso
    /\ audit' = r.db.audit
    /\ mails' = r.db.mails
    /\ calls' = calls + 1
    /\ last' = call
    /\ UNCHANGED now

Commit(r, call) == Returned(r, call) /\ UNCHANGED elsewhere

\* The service as constructed, no call made, and no request in the browser.
Quiet ==
    /\ users = {"u1"}
    /\ verification = [u \in Users |-> IF u = "u1" THEN "pending" ELSE "none"]
    /\ tokens = <<>>
    /\ sso = [u \in Users |-> NoPayload]
    /\ audit = <<>>
    /\ mails = [u \in Users |-> 0]
    /\ now = 0
    /\ calls = 0
    /\ last = NoCall
    /\ procs = NoProcs
    /\ given = NoPayload
    /\ strips = <<>>
    /\ NoTraffic

Init == Quiet /\ Untouched

\* ----------------------------------------------------------- actions
\* The inputs of each call.  An input the call never reads on the path it
\* takes is held at one value, so that no call is explored twice.
LoginInputs ==
    {x \in GoogleUsers \X TokenArgs \X (0..8) \X BOOLEAN :
        LET g == x[1]  f == x[3]
        IN  /\ f # 0 => "access_token" \notin DOMAIN g
            /\ f \in 1..5 => g["emailVerified"] = "false"
            \* the audit write of the catch block fails where the try block
            \* failed at the user lookup, the audit write or the minting
            /\ x[4] => f \in {0, 1, 7, 8}}

GoogleLogin ==
    /\ calls < MaxCalls
    /\ \E x \in LoginInputs :
          LET g == x[1]  rt == x[2]  f == x[3]  cf == x[4]
              t == LoginTry(Db, now, g, rt, f)
              r == LoginCatch(t, cf)
          IN  /\ cf => ~Running(t)
              /\ f # 0 => t.by = "local"
              /\ t.userId = NoUser =>
                    rt = "" /\ DOMAIN g = {"email", "emailVerified"}
                             /\ g["emailVerified"] = "false"
              /\ Commit(r, Done("googleLogin", g["email"], rt, NoId, FALSE,
                                Undefined, g["email"], g["emailVerified"], t, r))

RefreshInputs ==
    {x \in Responses \X (0..7) \X Thrown :
        LET resp == x[1]  f == x[2]  k == x[3]
        IN  /\ f = 0 => k = Other
            /\ resp.email_verified = "false"
            /\ f \in {1, 2} => resp = NoTokenSet
            /\ ~Truthy(resp.access_token) =>
                  f \in 0..2 /\ resp.refresh_token = Undefined /\ resp.email = Undefined
            /\ f \in {3, 4} => resp.refresh_token = Undefined /\ resp.email = Undefined
            /\ f \in {5, 6} => Truthy(resp.refresh_token)}

RefreshGoogleAccessToken ==
    /\ calls < MaxCalls
    /\ \E i \in 1..Len(tokens), u \in Users, x \in RefreshInputs :
          LET resp == x[1]  f == x[2]  k == x[3]
              t == RefreshTry(Db, now, tokens[i], u, resp, f, k)
              r == RefreshCatch(t)
          IN  /\ IF IsExpired(now, tokens[i])
                 THEN f \in {0, 1} /\ resp = NoTokenSet
                 ELSE u = tokens[i].user /\ f # 1
              /\ f # 0 => t.by \in {"local", "provider"}
              /\ Commit(r, Done("refresh", u, tokens[i].token, i,
                                IsExpired(now, tokens[i]), resp.refresh_token,
                                resp.email, Undefined, t, r))

RevokeInputs == {x \in (0..1) \X Thrown : x[1] = 0 => x[2] = Other}

RevokeRefreshToken ==
    /\ calls < MaxCalls
    /\ \E x \in RevokeInputs :
          LET t == RevokeTry(Db, x[1], x[2])
              r == RevokeCatch(t)
          IN  Commit(r, Done("revoke", NoUser, Undefined, NoId, FALSE, Undefined,
                            Undefined, Undefined, t, r))

RegisterInputs ==
    {x \in TokenArgs \X Responses \X (0..8) :
        LET rt == x[1]  resp == x[2]  f == x[3]
        IN  /\ f = 1 => resp = NoTokenSet
            /\ resp.access_token = Undefined
            /\ f \in 2..5 => resp.email_verified = "false"
            /\ f \in 2..7 => resp.refresh_token = Undefined
            /\ (f \in 1..7 \/ resp.refresh_token # Undefined) => rt = ""}

CreateGoogleSsoUser ==
    /\ calls < MaxCalls
    /\ \E x \in RegisterInputs :
          LET rt == x[1]  resp == x[2]  f == x[3]
              r == createGoogleSsoUser(Db, now, rt, resp, f, Other)
          IN  /\ f # 0 => r.by \in {"local", "provider"}
              /\ rt # "" => Running(r) \/ f = 8
              /\ r.userId = NoUser =>
                    /\ resp.email_verified = "false"
                    /\ resp.refresh_token = Undefined
                    /\ f \in 0..2
              /\ Commit(r, Done("register", NoUser, rt, NoId, FALSE, Undefined,
                                Undefined, Undefined, r, r))

\* The clock advances between calls.
Tick ==
    /\ now < MaxTime
    /\ calls < MaxCalls
    /\ now' = now + 1
    /\ UNCHANGED <<users, verification, tokens, sso, audit, mails, calls, last>>
    /\ UNCHANGED elsewhere

Next == GoogleLogin \/ RefreshGoogleAccessToken \/ RevokeRefreshToken
        \/ CreateGoogleSsoUser \/ Tick

Spec == Init /\ [][Next]_vars

\* ------------------------------------------------------------ claims
\* A step that is a call of `op` running to completion.
Called(op) == calls' = calls + 1 /\ last'.op = op
\* The kinds the catch block of refreshGoogleAccessToken lets through.
Named == {Expired, UserNotFound, Invalid}
RowsOf(rows, u) == {i \in 1..Len(rows) : rows[i].user = u}

\* C1: between calls, every user has at most one active refresh token.
C1_AtMostOneActive ==
    \A u \in Users : Cardinality(ActiveRows(tokens, u)) <= 1

\* C1 witness: a user's newest token is active and an older one of the same
\* user, once active, is now inactive.
C1_Witness ==
    \E i, j \in 1..Len(tokens) :
        /\ i < j
        /\ tokens[i].user = tokens[j].user
        /\ ~tokens[i].active
        /\ tokens[j].active

\* C2: googleLogin(U, t1) then googleLogin(U, t2), both succeeding and
\* t1 # t2, leaves t2 as the only active token of U and t1 stored, inactive.
C2_LoginTwice ==
    [][(/\ last.op = "googleLogin" /\ last.outcome = Ok /\ Truthy(last.tok)
        /\ Called("googleLogin") /\ last'.outcome = Ok /\ Truthy(last'.tok)
        /\ last'.who = last.who /\ last'.tok # last.tok)
       => (/\ Len(tokens') = Len(tokens) + 1
           /\ ActiveRows(tokens', last'.who) = {Len(tokens')}
           /\ tokens'[Len(tokens')].token = last'.tok
           /\ \E i \in 1..Len(tokens) :
                 /\ tokens[i].user = last.who /\ tokens[i].token = last.tok
                 /\ tokens[i].active
                 /\ tokens'[i] = [tokens[i] EXCEPT !.active = FALSE])]_vars

\* C2 witness: after two calls the last one is a successful login with t2 and
\* the user's previous row holds another token and is inactive.
C2_Witness ==
    /\ calls = 2 /\ Len(tokens) = 2
    /\ last.op = "googleLogin" /\ last.outcome = Ok
    /\ tokens[2].user = last.who /\ tokens[2].token = last.tok /\ tokens[2].active
    /\ tokens[1].user = last.who /\ tokens[1].token # last.tok /\ ~tokens[1].active

\* C3 as stated: a refresh with an expired token always leaves the given
\* user without active token, fails with ExpiredRefreshTokenException and
\* does not call the provider.
C3_Original ==
    (last.op = "refresh" /\ last.expired)
        => /\ last.outcome = Expired
           /\ ActiveRows(tokens, last.who) = {}
           /\ last.nRefresh = 0

\* C3 amended: a refresh with an expired token never calls the provider and
\* always fails; when deactivateRefreshTokens completes, every token of the
\* given user is inactive and the failure is ExpiredRefreshTokenException;
\* when deactivateRefreshTokens itself throws, no token changes and the
\* failure is the thrown error if it is a named kind, else the generic one.
C3_ExpiredRefresh ==
    [][(Called("refresh") /\ last'.expired)
       => /\ last'.nRefresh = 0
          /\ IF last'.by = "local"
             THEN /\ tokens' = tokens
                  /\ last'.outcome =
                        IF last'.raised \in Named THEN last'.raised ELSE UnexpectedRefresh
             ELSE /\ last'.outcome = Expired
                  /\ ActiveRows(tokens', last'.who) = {}
                  /\ Len(tokens') = Len(tokens)
                  /\ \A i \in 1..Len(tokens) :
                        tokens'[i] = IF tokens[i].user = last'.who
                                     THEN [tokens[i] EXCEPT !.active = FALSE]
                                     ELSE tokens[i]]_vars

\* C3 witness: an expired refresh has deactivated the token the first call
\* had issued to the given user.
C3_Witness ==
    /\ calls = 2
    /\ last.op = "refresh" /\ last.expired /\ last.outcome = Expired
    /\ RowsOf(tokens, last.who) # {}
    /\ ActiveRows(tokens, last.who) = {}

\* C4 as stated: every googleLogin call has written exactly one
\* authentication event when it returns or throws.
C4_Original ==
    last.op = "googleLogin" => last.nEvents = 1

\* C5 as stated: when the try block of googleLogin throws, the call writes
\* the (Login, GoogleSSO, Failure) event with the fixed message, the user id
\* resolved so far and a null refresh-token id, and throws
\* GoogleAuthFailedException; no other exception reaches the caller.
C5_Original ==
    last.op = "googleLogin"
        => /\ last.outcome \in {Ok, GoogleAuthFailed}
           /\ last.raised # Ok =>
                 /\ last.outcome = GoogleAuthFailed
                 /\ Len(audit) > 0
                 /\ audit[Len(audit)] =
                       [actor |-> last.resolved, type |-> "Login", method |-> "GoogleSSO",
                        status |-> "Failure", message |-> UnexpectedSso,
                        refreshTokenId |-> NoId]

\* The provider's refresh call threw, or answered without an access token.
ProviderFailed(call) ==
    /\ call.op = "refresh" /\ ~call.expired /\ call.nRefresh = 1
    /\ \/ call.by = "provider"
       \/ call.by = "code" /\ call.raised = UnexpectedRefresh

\* C6 as stated: when the provider's refresh call throws or answers without
\* access token, the call fails with the generic refresh error and the
\* refresh-token store is unchanged.
C6_Original ==
    [][(Called("refresh") /\ ProviderFailed(last'))
       => (last'.outcome = UnexpectedRefresh /\ tokens' = tokens)]_vars

\* C6 amended: when the provider's refresh call throws or answers without
\* access token, the call fails and the refresh-token store is unchanged;
\* the failure is the generic refresh error, except that a named kind thrown
\* by the provider reaches the caller unchanged.
C6_ProviderFailure ==
    [][(Called("refresh") /\ ProviderFailed(last'))
       => /\ tokens' = tokens
          /\ last'.outcome =
                IF last'.by = "provider" /\ last'.raised \in Named
                THEN last'.raised ELSE UnexpectedRefresh]_vars

\* C6 witness: the provider threw on a refresh with a token that is still
\* active, and the generic error came out.
C6_Witness ==
    /\ ProviderFailed(last) /\ last.by = "provider"
    /\ last.outcome = UnexpectedRefresh
    /\ tokens[last.row].active

\* C7: a successful refresh that was issued a new refresh token leaves that
\* token as the only active token of the resolved user and returns it.
C7_Rotation ==
    (last.op = "refresh" /\ last.outcome = Ok /\ Truthy(last.issued))
        => /\ Len(tokens) > 0
           /\ ActiveRows(tokens, last.resolved) = {Len(tokens)}
           /\ tokens[Len(tokens)].token = last.issued
           /\ last.ret = last.issued

\* C7 witness: the rotation deactivated the token the refresh was made with.
C7_Witness ==
    /\ last.op = "refresh" /\ last.outcome = Ok /\ Truthy(last.issued)
    /\ last.row < Len(tokens)
    /\ tokens[last.row].user = last.resolved
    /\ ~tokens[last.row].active

\* C8: a successful refresh that was issued no new refresh token returns no
\* refresh token, deactivates and creates no token (only last_used_on is
\* stamped), and the token used is still the only active token of its user.
C8_NoRotation ==
    [][(Called("refresh") /\ last'.outcome = Ok /\ ~Truthy(last'.issued))
       => /\ last'.ret = Undefined
          /\ Len(tokens') = Len(tokens)
          /\ \A i \in 1..Len(tokens) :
                \E stamp \in {tokens[i].last_used_on, now} :
                    tokens'[i] = [tokens[i] EXCEPT !.last_used_on = stamp]
          /\ \A u \in Users : ActiveRows(tokens', u) = ActiveRows(tokens, u)]_vars

\* C8 witness: the refresh succeeded without a new token and the token it
\* used is the only active token of its user.
C8_Witness ==
    /\ last.op = "refresh" /\ last.outcome = Ok /\ last.issued = Undefined
    /\ last.ret = Undefined
    /\ ActiveRows(tokens, tokens[last.row].user) = {last.row}
    /\ tokens[last.row].last_used_on = now

\* C9: a failed refresh surfaces one of four kinds: a named kind thrown in
\* the operation comes out unchanged, anything else comes out as the generic
\* refresh error; a decoded email that matches no user gives
\* UserNotFoundException.
C9_RefreshErrors ==
    last.op = "refresh"
        => /\ last.outcome \in {Ok, Expired, UserNotFound, Invalid, UnexpectedRefresh}
           /\ last.raised = Ok <=> last.outcome = Ok
           /\ last.raised \in Named => last.outcome = last.raised
           /\ last.raised \notin Named \cup {Ok} => last.outcome = UnexpectedRefresh
           /\ (/\ ~last.expired /\ last.by \in {"none", "code"}
               /\ last.raised # UnexpectedRefresh
               /\ last.email \notin users) => last.outcome = UserNotFound

\* C9 witness: the decoded email matched no user and UserNotFoundException
\* reached the caller.
C9_Witness ==
    /\ last.op = "refresh" /\ last.by = "code" /\ last.email \notin users
    /\ last.outcome = UserNotFound

\* C10: revokeRefreshToken calls the provider's revoke once, returns iff that
\* call succeeds, lets InvalidRefreshTokenException through, replaces any
\* other error by the generic logout error, and never touches the store.
C10_Revoke ==
    [][Called("revoke")
       => /\ last'.nRevoke = 1 /\ last'.nRefresh = 0
          /\ last'.outcome = Ok <=> last'.by = "none"
          /\ (last'.by = "provider" /\ last'.raised = Invalid) => last'.outcome = Invalid
          /\ (last'.by = "provider" /\ last'.raised # Invalid) => last'.outcome = LogoutFailed
          /\ tokens' = tokens]_vars

\* C10 witness: the provider rejected the token as invalid, with tokens in
\* the store, and that error came out.
C10_Witness ==
    /\ last.op = "revoke" /\ last.raised = Invalid /\ last.outcome = Invalid
    /\ Len(tokens) > 0

\* ================================ concurrent refreshGoogleAccessToken calls
\* Calls of refreshGoogleAccessToken in flight at once.  A call gives way to
\* the others at each await: a step is the completion of the awaited call
\* together with the code that follows it up to the next await.  The stores
\* are shared, the locals are the call's own.

\* await deactivateRefreshTokens(user.id), line 161
RotateDeactivate(s) ==
    [s EXCEPT !.db.tokens = DeactivateRefreshTokens(@, s.userId)]

\* await createRefreshToken(user.id, newTokenSet.refresh_token, ...), line 164
RotateCreate(s, resp, time) ==
    [s EXCEPT !.db.tokens = CreateRefreshToken(@, s.userId, resp.refresh_token, time)]

\* The locals of a suspended call, and the call resumed over the stores as
\* they are now.
Suspended(s) == [s EXCEPT !.db = <<>>]
Resumed(s) == [s EXCEPT !.db = Db]

\* The call moves on to its next await, or to its catch block and out.
Advance(p, s, pc, resp, made) ==
    /\ tokens' = s.db.tokens
    /\ procs' = [procs EXCEPT ![p] =
                    [@ EXCEPT !.pc = IF Running(s) THEN pc ELSE "done",
                              !.s = Suspended(RefreshCatch(s)),
                              !.resp = resp, !.made = made]]
    /\ UNCHANGED <<users, verification, sso, audit, mails, now, calls, last, given, strips, browser, apart>>

\* What the provider answers to a call in flight.
RotResponses ==
    {resp \in TokenSets :
        /\ resp.email_verified = "false"
        /\ resp.access_token \in {Undefined, "at"}
        /\ resp.access_token = Undefined =>
              resp.refresh_token = Undefined /\ resp.email = Undefined
        /\ resp.email \in {"u1", Undefined}
        /\ resp.email = Undefined => resp.refresh_token = Undefined}

\* The call starts: the expiry check and, for an expired token, the
\* deactivation and the throw.
RotExpiry(p) ==
    /\ procs[p].pc = "idle"
    /\ \E i \in 1..Len(tokens) :
          LET s == RefreshExpiry(Start(Db), tokens[i], tokens[i].user, now, 0, Other)
          IN  /\ tokens' = s.db.tokens
              /\ procs' = [procs EXCEPT ![p] =
                    [pc |-> IF Running(s) THEN "refresh" ELSE "done",
                     row |-> i, userId |-> tokens[i].user, resp |-> NoTokenSet,
                     s |-> Suspended(RefreshCatch(s)), made |-> NoId]]
              /\ UNCHANGED <<users, verification, sso, audit, mails, now, calls, last, given, strips, browser, apart>>

\* googleClient.refresh answers.
RotProvider(p) ==
    /\ procs[p].pc = "refresh"
    /\ \E resp \in RotResponses :
          Advance(p, RefreshCallProvider(Resumed(procs[p].s), resp, 0, Other),
                  "updateLastUsedOn", resp, NoId)

\* updateLastUsedOn completes.
RotTouch(p) ==
    /\ procs[p].pc = "updateLastUsedOn"
    /\ Advance(p, RefreshTouch(Resumed(procs[p].s), tokens[procs[p].row], now, 0, Other),
               "getUserByEmail", procs[p].resp, NoId)

\* getUserByEmail completes; with no new refresh token the call returns.
RotFindUser(p) ==
    /\ procs[p].pc = "getUserByEmail"
    /\ LET s == RefreshFindUser(Resumed(procs[p].s), procs[p].resp, 0, Other)
       IN  Advance(p, s,
                   IF Truthy(procs[p].resp.refresh_token)
                   THEN "deactivateRefreshTokens" ELSE "done",
                   procs[p].resp, NoId)

\* deactivateRefreshTokens completes.
RotDeactivate(p) ==
    /\ procs[p].pc = "deactivateRefreshTokens"
    /\ Advance(p, [RotateDeactivate(Resumed(procs[p].s))
                      EXCEPT !.ret = procs[p].resp.refresh_token],
               "createRefreshToken", procs[p].resp, NoId)

\* createRefreshToken completes; the call returns the new token.
RotCreate(p) ==
    /\ procs[p].pc = "createRefreshToken"
    /\ Advance(p, RefreshMint(RotateCreate(Resumed(procs[p].s), procs[p].resp, now), 0, Other),
               "done", procs[p].resp, Len(tokens) + 1)

\* The store a login of u1 with rtA, in tick 0, leaves behind.
AfterLogin ==
    googleLogin([users |-> {"u1"},
                 verification |-> [u \in Users |-> IF u = "u1" THEN "pending" ELSE "none"],
                 tokens |-> <<>>, sso |-> [u \in Users |-> NoPayload],
                 audit |-> <<>>, mails |-> [u \in Users |-> 0]],
                0, [x \in {"email", "emailVerified"} |-> IF x = "email" THEN "u1" ELSE "false"],
                "rtA", 0, FALSE)

InitConcurrent ==
    /\ users = AfterLogin.db.users
    /\ verification = AfterLogin.db.verification
    /\ tokens = AfterLogin.db.tokens
    /\ sso = AfterLogin.db.sso
    /\ audit = AfterLogin.db.audit
    /\ mails = AfterLogin.db.mails
    /\ now \in 0..MaxTime
    /\ calls = 0
    /\ last = NoCall
    /\ procs = NoProcs
    /\ given = NoPayload
    /\ strips = <<>>
    /\ NoTraffic
    /\ Untouched

NextConcurrent ==
    \E p \in Procs :
        \/ RotExpiry(p) \/ RotProvider(p) \/ RotTouch(p)
        \/ RotFindUser(p) \/ RotDeactivate(p) \/ RotCreate(p)

SpecConcurrent == InitConcurrent /\ [][NextConcurrent]_vars

\* Both calls have returned, each with the new refresh token it stored, for
\* the same user.
BothRotated ==
    /\ \A p \in Procs : /\ procs[p].pc = "done" /\ procs[p].s.err = Ok
                        /\ procs[p].made # NoId
    /\ procs["p1"].s.userId = procs["p2"].s.userId

\* C11 as stated: two concurrent refreshes of one user that both store a new
\* refresh token leave, in every interleaving, exactly one active token: the
\* one created last; the other call's new token is inactive.
C11_Original ==
    BothRotated =>
        LET newest == IF procs["p1"].made > procs["p2"].made THEN "p1" ELSE "p2"
            other == IF newest = "p1" THEN "p2" ELSE "p1"
        IN  /\ ActiveRows(tokens, procs[newest].s.userId) = {procs[newest].made}
            /\ ~tokens[procs[other].made].active

\* ============================================ claims on the service, again
\* C12: googleLogin marks the user verified exactly when the user is not yet
\* verified locally and the payload asserts emailVerified (a call that fails
\* before that step marks nothing); no googleLogin call turns a verified user
\* back into an unverified one, and no other user's status changes.
C12_OneDirectional ==
    [][Called("googleLogin")
       => /\ \A u \in Users :
                verification[u] = "verified" => verification'[u] = "verified"
          /\ \A u \in Users :
                verification'[u] # verification[u]
                    => /\ u = last'.resolved
                       /\ last'.asserted = "true"
                       /\ verification'[u] = "verified"
          /\ (last'.outcome = Ok /\ last'.asserted = "true")
                => verification'[last'.who] = "verified"]_vars

\* C12 witness: a verified user has logged in with a payload that asserts
\* emailVerified false, and is still verified.
C12_Witness ==
    /\ last.op = "googleLogin" /\ last.outcome = Ok
    /\ last.asserted = "false"
    /\ verification[last.who] = "verified"

\* C13 as stated: a successful googleLogin of an unverified user with
\* email_verified false dispatches a verification email and leaves the user
\* unverified; with email_verified true it marks the user verified and
\* dispatches no email.
C13_Original ==
    [][(/\ Called("googleLogin") /\ last'.outcome = Ok
        /\ verification[last'.who] # "verified")
       => IF last'.asserted = "false"
          THEN /\ mails'[last'.who] = mails[last'.who] + 1
               /\ verification'[last'.who] # "verified"
          ELSE /\ verification'[last'.who] = "verified"
               /\ mails' = mails]_vars

\* C16 as stated: every createGoogleSsoUser call has written exactly one
\* (Registration) event when it returns or throws.
C16_Original ==
    last.op = "register"
        => /\ last.nEvents = 1
           /\ audit[1].type = "Registration"

\* ======================================= the payloads that reach the store
\* The login and registration calls with payloads that carry more than the
\* two fields the service reads, and the strip step of createGoogleSso
\* applied to a payload's raw JSON, and to its own result.

\* Fields a payload may carry besides the ones read: absent, undefined or set.
TokenFields == {"access_token", "accessToken"}
MoreFields ==
    UNION {[keys -> {Undefined, "at"}] : keys \in SUBSET TokenFields}

\* GoogleUserDto values of googleLogin.
PayloadUsers ==
    {[x \in {"email", "emailVerified"} \cup DOMAIN m |->
         IF x = "email" THEN e ELSE IF x = "emailVerified" THEN v ELSE m[x]] :
     <<e, v, m>> \in Users \X {"true", "false"} \X MoreFields}

\* Answers of googleClient.refresh to createGoogleSsoUser, with their claims.
PayloadResponses ==
    [set : {TRUE}, access_token : {"at"}, refresh_token : {Undefined},
     email : Users, email_verified : {"true", "false"}, claims : MoreFields]

\* googleLogin, every awaited call succeeding.
PayloadLogin ==
    /\ calls < MaxCalls
    /\ \E g \in PayloadUsers :
          LET t == LoginTry(Db, now, g, "", 0)
              r == LoginCatch(t, FALSE)
          IN  /\ Returned(r, Done("googleLogin", g["email"], "", NoId, FALSE,
                                  Undefined, g["email"], g["emailVerified"], t, r))
              /\ given' = g
              /\ strips' = <<>>
              /\ UNCHANGED <<procs, browser, apart>>

\* createGoogleSsoUser, every awaited call succeeding.
PayloadRegister ==
    /\ calls < MaxCalls
    /\ \E resp \in PayloadResponses :
          LET r == createGoogleSsoUser(Db, now, "", resp, 0, Other)
          IN  /\ Returned(r, Done("register", NoUser, "", NoId, FALSE, Undefined,
                                  Undefined, Undefined, r, r))
              /\ given' = DecodedPayload(resp)
              /\ strips' = <<>>
              /\ UNCHANGED <<procs, browser, apart>>

\* The strip step of createGoogleSso on the raw JSON of the payload, then on
\* what the step gave.
Strip ==
    /\ given # NoPayload
    /\ Len(strips) < 2
    /\ strips' = Append(strips, SanitizedJson(IF strips = <<>> THEN RawJson(given)
                                              ELSE strips[Len(strips)]))
    /\ UNCHANGED <<service, procs, given, browser, apart>>

InitPayload ==
    /\ users = {"u1"}
    /\ verification = [u \in Users |-> IF u = "u1" THEN "pending" ELSE "none"]
    /\ tokens = <<>>
    /\ sso = [u \in Users |-> NoPayload]
    /\ audit = <<>>
    /\ mails = [u \in Users |-> 0]
    /\ now = 0
    /\ calls = 0
    /\ last = NoCall
    /\ procs = NoProcs
    /\ given = NoPayload
    /\ strips = <<>>
    /\ NoTraffic
    /\ Untouched

NextPayload == PayloadLogin \/ PayloadRegister \/ Strip

SpecPayload == InitPayload /\ [][NextPayload]_vars

\* The call that just returned or threw got as far as createGoogleSso.
Linked(call) == call.resolved # NoUser

\* C14: no persisted provider payload has an access_token field, and a login
\* or registration that reaches createGoogleSso persists every other field of
\* its payload unchanged (a field holding undefined has no JSON form: it is
\* absent from the stored payload and reads back as undefined).
C14_NoAccessToken ==
    [][/\ \A u \in Users : "access_token" \notin DOMAIN sso'[u]
       /\ (calls' = calls + 1 /\ Linked(last'))
             => LET stored == sso'[last'.resolved]
                IN  /\ DOMAIN stored = {x \in DOMAIN given' \ {"access_token"} :
                                           given'[x] # Undefined}
                    /\ \A x \in DOMAIN stored : stored[x] = given'[x]]_vars

\* C14 witness: a registration whose payload carried an access token has
\* persisted the payload, email included.
C14_Witness ==
    /\ last.op = "register" /\ Linked(last)
    /\ "access_token" \in DOMAIN given /\ given["access_token"] = "at"
    /\ sso[last.resolved]["email"] = given["email"]

\* C15: stripping an already stripped payload gives the payload back.
C15_Idempotent ==
    Len(strips) = 2 => strips[2] = strips[1]

\* C15 witness: a payload that carried an access token was stripped twice.
C15_Witness ==
    /\ Len(strips) = 2
    /\ "access_token" \in DOMAIN given /\ given["access_token"] = "at"
    /\ "access_token" \notin DOMAIN strips[1]

\* ========================================== the middleware and the browser
\* A browser keeps the cookies it is sent and sends them back with its next
\* request; the middleware answers one request at a time.  `seen` and
\* `reply` hold a request and its response until the browser's cookies
\* change otherwise.

Languages == {"nb", "en"}
PathLangs == {"no", "en"}
Markers == {Marker(n) : n \in SessionNames}

\* The actors fetchLoggedInUserInfo may return for these cookies: a User for
\* one of the user sessions, with that session's id string, or the Patient of
\* the patient session.
Actors(cookies) ==
    {[kind |-> "actor", me |-> [typename |-> "User", language |-> l],
      sessionId |-> Join(n, cookies[n]), token |-> <<"tok">>] :
        <<n, l>> \in getUserSessionCookies(cookies) \X Languages}
    \cup (IF getPatientSessionCookie(cookies)
          THEN {[kind |-> "actor", me |-> [typename |-> "Patient", language |-> Undefined],
                 sessionId |-> <<Undefined>>, token |-> <<"tok">>]}
          ELSE {})
Fetches(cookies) == {FetchError, FetchNobody} \cup Actors(cookies)

\* The browser takes the cookies of a response: the ones set, less the ones
\* deleted.
Browse(cookies, response) ==
    LET names == (DOMAIN cookies \ response.deleted) \cup DOMAIN response.cookies
    IN  [n \in names |-> IF n \in DOMAIN response.cookies
                         THEN response.cookies[n].value ELSE cookies[n]]

\* A request: the browser sends its cookies, the middleware answers.  What
\* the call does not read is held at one value.
MwRequest ==
    \E lang \in PathLangs, fetch \in Fetches(jar), gone \in SUBSET getUserSessionCookies(jar) :
        LET request == [cookies |-> jar, lang |-> lang]
            r == authenticateUserMiddleware(request, fetch, gone)
            read == r.fetched /\ fetch.kind = "actor" /\ isUser(fetch.me)
        IN  /\ ~r.fetched => fetch = FetchNobody
            /\ ~read => gone = {}
            /\ ~(read /\ LoggedUser \notin DOMAIN jar) => lang = "en"
            /\ read => Split(fetch.sessionId)[1] \notin gone
            /\ seen' = [cookies |-> jar, lang |-> lang, fetched |-> r.fetched,
                        fetch |-> fetch]
            /\ reply' = r.response
            /\ jar' = Browse(jar, r.response)
            /\ UNCHANGED <<service, procs, given, strips, apart>>

Forgotten == seen' = NoRequest /\ reply' = NoResponse

\* maxAge: a marker cookie expires.
MwExpire ==
    /\ \E n \in DOMAIN jar \cap Markers : jar' = Restrict(jar, DOMAIN jar \ {n})
    /\ Forgotten
    /\ UNCHANGED <<service, procs, given, strips, apart>>

\* The backend opens a user session, or the patient session.
MwSignIn ==
    /\ \/ \E n \in SessionNames, v \in SessionValues : jar' = (n :> v) @@ jar
       \/ jar' = (PatientCookie :> <<"p">>) @@ jar
    /\ jar' # jar
    /\ Forgotten
    /\ UNCHANGED <<service, procs, given, strips, apart>>

\* A session cookie goes away.
MwSignOut ==
    /\ \E n \in DOMAIN jar \cap (SessionNames \cup {PatientCookie}) :
          jar' = Restrict(jar, DOMAIN jar \ {n})
    /\ Forgotten
    /\ UNCHANGED <<service, procs, given, strips, apart>>

NextMiddleware == MwRequest \/ MwExpire \/ MwSignIn \/ MwSignOut

SpecMiddleware == Init /\ [][NextMiddleware]_vars

\* The request had exactly one user-session cookie, `n`, and the marker
\* cookie of `n` with the same value.
MarkedSession(cookies, n) ==
    /\ getUserSessionCookies(cookies) = {n}
    /\ Marker(n) \in DOMAIN cookies
    /\ cookies[Marker(n)] = cookies[n]
Answered == seen # NoRequest

\* C17: a request with exactly one user-session cookie and a marker cookie of
\* the same value is a cache hit: no fetch, no response that sets or clears
\* anything; a request with no user-session and no patient-session cookie is
\* never a cache hit: the fetch is made.
C17_CacheHit ==
    Answered =>
        /\ (\E n \in SessionNames : MarkedSession(seen.cookies, n))
              => (~seen.fetched /\ reply = NoResponse)
        /\ (getUserSessionCookies(seen.cookies) = {}
            /\ ~getPatientSessionCookie(seen.cookies)) => seen.fetched

\* C17 witness: a request with one user session and its marker, and no
\* patient session, was answered without fetching.
C17_Witness ==
    /\ Answered /\ ~seen.fetched
    /\ \E n \in SessionNames : MarkedSession(seen.cookies, n)
    /\ ~getPatientSessionCookie(seen.cookies)

\* The part of a session value before its first "=".
RECURSIVE UpToEquals(_)
UpToEquals(value) ==
    IF value = <<>> \/ value[1] = "=" THEN <<>>
    ELSE <<value[1]>> \o UpToEquals(Tail(value))

\* C18: on a fetched actor the response sets logged-user to the serialized
\* actor and authToken to the actor's token (path /, not http-only, secure,
\* lax), and sets a marker cookie, with maxAge 60, exactly when the actor is
\* a User: user-<sessionId> = <sessionValue>, the two first "="-separated
\* parts of the session id string.
C18_ActorCookies ==
    (Answered /\ seen.fetched /\ seen.fetch.kind = "actor") =>
        /\ reply.kind \in {"next", "redirect"}
        /\ LoggedUser \in DOMAIN reply.cookies
        /\ reply.cookies[LoggedUser] = Cookie(JsonStringify(seen.fetch.me), 0)
        /\ AuthToken \in DOMAIN reply.cookies
        /\ reply.cookies[AuthToken] = Cookie(seen.fetch.token, 0)
        /\ IF seen.fetch.me.typename = "User"
           THEN \E n \in getUserSessionCookies(seen.cookies) :
                   /\ seen.fetch.sessionId = Join(n, seen.cookies[n])
                   /\ DOMAIN reply.cookies = {LoggedUser, AuthToken, Marker(n)}
                   /\ reply.cookies[Marker(n)] =
                         [value |-> UpToEquals(seen.cookies[n]), path |-> "/",
                          httpOnly |-> FALSE, secure |-> TRUE, sameSite |-> "lax",
                          maxAge |-> MarkerMaxAge]
           ELSE DOMAIN reply.cookies = {LoggedUser, AuthToken}

\* C18 witness: a Patient was fetched on a request that also had a user
\* session, and the response carries no marker cookie.
C18_Witness ==
    /\ Answered /\ seen.fetched /\ seen.fetch.kind = "actor"
    /\ seen.fetch.me.typename = "Patient"
    /\ getUserSessionCookies(seen.cookies) # {}
    /\ DOMAIN reply.cookies \cap Markers = {}

\* C19 as stated: after a User was fetched for the session id string
\* <name>=<value>, a following request that carries the single user-session
\* cookie <name>=<value> and the marker cookie as the response set it is a
\* cache hit; a request with a single user session and no marker fetches.
C19_Original ==
    [][\A n \in SessionNames :
        /\ (/\ Answered /\ seen.fetched /\ seen.fetch.kind = "actor"
            /\ seen.fetch.me.typename = "User"
            /\ n \in DOMAIN seen.cookies
            /\ seen.fetch.sessionId = Join(n, seen.cookies[n])
            /\ seen' # NoRequest
            /\ getUserSessionCookies(seen'.cookies) = {n}
            /\ seen'.cookies[n] = seen.cookies[n]
            /\ Marker(n) \in DOMAIN seen'.cookies
            /\ seen'.cookies[Marker(n)] = reply.cookies[Marker(n)].value)
              => (~seen'.fetched /\ reply' = NoResponse)
        /\ (/\ seen' # NoRequest
            /\ getUserSessionCookies(seen'.cookies) = {n}
            /\ Marker(n) \notin DOMAIN seen'.cookies)
              => seen'.fetched]_vars

\* C20 as stated: when the fetch fails with an error, and when it returns no
\* actor, the response clears the logged-user and authToken cookies and
\* headers, whatever cookies the request had.
C20_Original ==
    (Answered /\ seen.fetched /\ seen.fetch.kind \in {"error", "nobody"}) =>
        /\ reply.kind = "next"
        /\ reply.deleted = {LoggedUser, AuthToken}
        /\ reply.headersDeleted = {LoggedUser, AuthToken}
        /\ reply.cookies = NoCookies
        /\ reply.headers = NoCookies

\* C21: on a fetched actor the response is a redirect to the path under the
\* user's preferred language (nb read as no) exactly when the actor is a
\* User, the request has no logged-user cookie and the path's language is
\* another one; otherwise it is NextResponse.next(); either way it carries
\* the actor's cookies and headers.
C21_LangRedirect ==
    (Answered /\ seen.fetched /\ seen.fetch.kind = "actor") =>
        LET me == seen.fetch.me
            wanted == IF me.language = "nb" THEN "no" ELSE me.language
            redirect == /\ me.typename = "User"
                        /\ LoggedUser \notin DOMAIN seen.cookies
                        /\ seen.lang # wanted
        IN  /\ reply.kind = IF redirect THEN "redirect" ELSE "next"
            /\ reply.location = IF redirect THEN wanted ELSE Undefined
            /\ {LoggedUser, AuthToken} \subseteq DOMAIN reply.cookies
            /\ reply.cookies[LoggedUser].value = JsonStringify(me)
            /\ reply.cookies[AuthToken].value = seen.fetch.token
            /\ DOMAIN reply.headers = {LoggedUser, AuthToken}

\* C21 witness: a User who prefers nb, new on a path under en, is redirected
\* to no, with the cookies set.
C21_Witness ==
    /\ Answered /\ seen.fetched /\ seen.fetch.kind = "actor"
    /\ seen.fetch.me.language = "nb" /\ seen.lang = "en"
    /\ reply.kind = "redirect" /\ reply.location = "no"
    /\ LoggedUser \in DOMAIN reply.cookies

\* C22: in every response the headers mirror the cookies for logged-user and
\* authToken: set together with the same value, cleared together.
C22_HeadersMirror ==
    \A n \in {LoggedUser, AuthToken} :
        /\ n \in DOMAIN reply.cookies <=> n \in DOMAIN reply.headers
        /\ n \in DOMAIN reply.cookies => reply.headers[n] = reply.cookies[n].value
        /\ n \in reply.deleted <=> n \in reply.headersDeleted

\* C22 witness: a response on a request that had the logged-user cookie
\* cleared it, cookie and header.
C22_Witness ==
    /\ Answered /\ LoggedUser \in DOMAIN seen.cookies
    /\ LoggedUser \in reply.deleted /\ LoggedUser \in reply.headersDeleted

\* C24 as stated: a refresh that fails leaves every last-used timestamp as
\* it was.
C24_Original ==
    [][(Called("refresh") /\ last'.outcome # Ok)
       => /\ Len(tokens') = Len(tokens)
          /\ \A i \in 1..Len(tokens) :
                tokens'[i].last_used_on = tokens[i].last_used_on]_vars

\* ------------------------------------------------------ SpecContext
\* The context getters of part_002 applied to one backend request, each at
\* most once, in any order.
Requests ==
    [user : {Null} \cup {[null |-> FALSE, roles |-> rs] : rs \in {{}, {"CustomerAdmin"}}},
     patient : {Null, [null |-> FALSE, patientId |-> 1]},
     sessionId : {Undefined, "s1"},
     windowId : {Undefined, "string", "number"},
     headers : [acceptLanguage : {Undefined, "en", "de"},
                pageUrl : {<<>>, <<"o", "/p">>},
                origin : {<<>>, <<"o">>}]]

GetAuthContext ==
    /\ ctx.auth = NotCalled
    /\ ctx' = [ctx EXCEPT !.auth = getAuthContext(ctx.req)]
    /\ UNCHANGED besideCtx

GetContextUser ==
    /\ ctx.user = NotCalled
    /\ ctx' = [ctx EXCEPT !.user = getContextUser(ctx.req)]
    /\ UNCHANGED besideCtx

GetContextPatient ==
    /\ ctx.patient = NotCalled
    /\ ctx' = [ctx EXCEPT !.patient = getContextPatient(ctx.req)]
    /\ UNCHANGED besideCtx

InitContext ==
    /\ Quiet
    /\ ctx \in {[NoCtx EXCEPT !.req = r] : r \in Requests}
    /\ NoWidgetYet /\ NoSubmitYet /\ NoStatsYet /\ NoButtonYet /\ NoModalYet

NextContext == GetAuthContext \/ GetContextUser \/ GetContextPatient
SpecContext == InitContext /\ [][NextContext]_vars

\* C23: a context getAuthContext returns has exactly one of user and patient
\* non-null; with neither set on the request it throws; with both set the
\* context it returns has the user and a null patient; getContextUser and
\* getContextPatient do not both succeed on one request.
C23_ExactlyOne ==
    /\ (ctx.auth.err = Ok) => (ctx.auth.val.user.null # ctx.auth.val.patient.null)
    /\ (ctx.auth # NotCalled /\ ctx.req.user.null /\ ctx.req.patient.null)
           => ctx.auth.err \notin {Ok, "not called"}
    /\ (ctx.auth.err = Ok /\ ~ctx.req.user.null /\ ~ctx.req.patient.null)
           => (~ctx.auth.val.user.null /\ ctx.auth.val.patient.null)
    /\ ~(ctx.user.err = Ok /\ ctx.patient.err = Ok)

\* C23 witness: on a request with a user and a patient all three getters
\* ran, getAuthContext and getContextUser returned and getContextPatient
\* threw.
C23_Witness ==
    /\ ~ctx.req.user.null /\ ~ctx.req.patient.null
    /\ ctx.auth.err = Ok /\ ctx.auth.val.patient.null
    /\ ctx.user.err = Ok /\ ctx.patient.err = "UnauthorizedException"

\* ----------------------------------------------------------- SpecPage
\* Feedback widgets constructed, initialised again and destroyed in one
\* document.
NewFeedbackWidget ==
    /\ Len(page.widgets) < MaxWidgets
    /\ page.listeners < MaxListeners
    /\ \E id \in WidgetIds :
           page' = Did("construct", id, page, FeedbackWidget(page, id))
    /\ UNCHANGED besidePage

CallInit ==
    /\ page.listeners < MaxListeners
    /\ \E i \in 1..Len(page.widgets) :
           page' = Did("init", page.widgets[i].WIDGET_ID, page, init(page, i))
    /\ UNCHANGED besidePage

CallDestroy ==
    /\ \E i \in 1..Len(page.widgets) :
           page' = Did("destroy", page.widgets[i].WIDGET_ID, page, destroy(page, i))
    /\ UNCHANGED besidePage

\* The timer the script sets when FeedbackWidgetConfig is undefined: it
\* calls FeedbackWidget.exists(), and FeedbackWidget there is the class,
\* which has no such method.
AutoInit ==
    /\ page.auto = "pending"
    /\ page' = [page EXCEPT !.auto = "TypeError"]
    /\ UNCHANGED besidePage

InitPage ==
    /\ Quiet
    /\ NoContextYet /\ NoSubmitYet /\ NoStatsYet /\ NoButtonYet /\ NoModalYet
    /\ page \in {[NoPage EXCEPT !.auto = a] : a \in {"none", "pending"}}

NextPage == NewFeedbackWidget \/ CallInit \/ CallDestroy \/ AutoInit
SpecPage == InitPage /\ [][NextPage]_vars

\* C25: the document holds at most one host element with a widget's id, and
\* a widget constructed or initialised while an element with its id is in
\* the document makes no element and binds no document listener.
C25_InitGuard ==
    /\ \A w \in WidgetIds : page.hosts[w] <= 1
    /\ (page.made.op \in {"construct", "init"} /\ page.made.existed)
           => (~page.made.created /\ ~page.made.bound)

\* C25 witness: a second widget was constructed with the id of one whose
\* host element is in the document, and made nothing.
C25_Witness ==
    /\ Len(page.widgets) = 2
    /\ page.widgets[1].WIDGET_ID = page.widgets[2].WIDGET_ID
    /\ page.widgets[1].host = "attached" /\ page.widgets[2].host = "none"
    /\ page.made.op = "construct" /\ page.made.existed /\ ~page.made.created

\* --------------------------------------------------------- SpecSubmit
\* One feedback widget: clicks on its button, the requests' answers, the
\* sleeps running out.
MessageLengths == {MIN_MESSAGE_LENGTH - 1, MIN_MESSAGE_LENGTH,
                   MAX_MESSAGE_LENGTH, MAX_MESSAGE_LENGTH + 1}

HandleSubmit ==
    /\ Len(form.chains) < MaxSubmits
    /\ \E len \in MessageLengths : form' = handleSubmit(form, len)
    /\ UNCHANGED besideForm

\* A request is answered, or the timeout wins the race against it and the
\* request stays in flight.
Respond ==
    /\ \E c \in DOMAIN form.chains :
           /\ form.chains[c].pc = "request"
           /\ \/ \E ok \in BOOLEAN : form' = Settled(form, c, ok)
              \/ form' = [Settled(form, c, FALSE) EXCEPT !.stale = @ + 1]
    /\ UNCHANGED besideForm

\* A request the timeout gave up on is answered.
Late ==
    /\ form.stale > 0
    /\ form' = [form EXCEPT !.stale = @ - 1]
    /\ UNCHANGED besideForm

WakeUp ==
    /\ \E c \in DOMAIN form.chains :
           /\ form.chains[c].pc = "sleep"
           /\ form' = Retry(form, c)
    /\ UNCHANGED besideForm

InitSubmit ==
    /\ Quiet
    /\ NoContextYet /\ NoWidgetYet /\ NoStatsYet /\ NoButtonYet /\ NoModalYet
    /\ form \in {[NoForm EXCEPT !.onSuccess = s] : s \in {"none", "returns", "throws"}}

NextSubmit == HandleSubmit \/ Respond \/ Late \/ WakeUp
SpecSubmit == InitSubmit /\ [][NextSubmit]_vars

\* C26 as stated: while an accepted submission has not finished,
\* state.isSubmitting is true, no second submission is under way and at most
\* one request is in flight.
C26_Original ==
    LET open == {c \in DOMAIN form.chains : form.chains[c].pc # "done"}
    IN  /\ open # {} => form.isSubmitting
        /\ Cardinality(open) <= 1
        /\ InFlight(form) <= 1

\* C27 as stated: an accepted submission sends at most RETRY_ATTEMPTS
\* requests, sleeps RETRY_DELAY * attempt between them, sends none after one
\* that succeeded, and ends with state.isSubmitting false and one outcome:
\* handleSubmitSuccess once if a request succeeded, else handleSubmitError
\* once after the last attempt; no error is reported before the end.
C27_Original ==
    \A c \in DOMAIN form.chains :
        LET ch == form.chains[c]
        IN  /\ ch.sent <= RETRY_ATTEMPTS
            /\ \A k \in DOMAIN ch.waits : ch.waits[k] = RETRY_DELAY * k
            /\ ch.okAt # 0 => ch.sent = ch.okAt
            /\ ch.pc # "done" => ch.errors = 0
            /\ ch.pc = "done" =>
                   /\ ~ch.left
                   /\ ch.success + ch.errors = 1
                   /\ ch.success = 1 <=> ch.okAt # 0
                   /\ ch.errors = 1 => ch.sent = RETRY_ATTEMPTS

\* ---------------------------------------------------------- SpecStats
\* execute called by a customers' admin and by another user, with the same
\* input and the same effects in the repository.
Scores == {<<0, 1, 1>>, <<1, 1, 0>>, <<1, 0, 1>>}
Identities == {<<"null", NoPatientId>>, <<"c1", NoPatientId>>, <<"null", 7>>,
               <<"c1", 7>>, <<"", 7>>, <<"c1", 0>>}
Effects ==
    {[period |-> p, caseness |-> s[1], recovered |-> s[2], reliablyimproved |-> s[3],
      code |-> w[1], patientId |-> w[2]] :
        p \in Periods, s \in Scores, w \in Identities}
EffectLists == UNION {[1..n -> Effects] : n \in 0..MaxEffects}
Ranges == {<<"p1">>, <<"p1", "p2">>}

ExecuteAsAdmin ==
    /\ ~stats.admin.run
    /\ stats' = [stats EXCEPT !.admin =
                    Ran(execute(stats.input, [isCustomersAdmin |-> TRUE], stats.effects))]
    /\ UNCHANGED besideStats

ExecuteAsOther ==
    /\ ~stats.other.run
    /\ stats' = [stats EXCEPT !.other =
                    Ran(execute(stats.input, [isCustomersAdmin |-> FALSE], stats.effects))]
    /\ UNCHANGED besideStats

InitStats ==
    /\ Quiet
    /\ NoContextYet /\ NoWidgetYet /\ NoSubmitYet /\ NoButtonYet /\ NoModalYet
    /\ stats \in {[NoStats EXCEPT !.effects = es, !.input.range = r] :
                     es \in EffectLists, r \in Ranges}

NextStats == ExecuteAsAdmin \/ ExecuteAsOther
SpecStats == InitStats /\ [][NextStats]_vars

\* C28: a caller who is not a customers' admin gets no patients and the
\* repository is asked with includePatients false; a customers' admin gets
\* one patient for each effect that has a code and a patientId, and no
\* other; the chart is the same for both.
C28_NoDisclosure ==
    /\ stats.other.run =>
           (stats.other.patients = <<>> /\ ~stats.other.query.includePatients)
    /\ stats.admin.run =>
           /\ stats.admin.query.includePatients
           /\ \A c \in {"null", "", "c1"}, id \in {NoPatientId, 0, 7} :
                  Cardinality({i \in DOMAIN stats.admin.patients :
                                  stats.admin.patients[i] = [code |-> c, patientId |-> id]})
                  = IF c = "c1" /\ id = 7
                    THEN Cardinality({i \in DOMAIN stats.effects :
                                         /\ stats.effects[i].code = c
                                         /\ stats.effects[i].patientId = id})
                    ELSE 0
    /\ (stats.other.run /\ stats.admin.run) => stats.other.chart = stats.admin.chart

\* C28 witness: over effects of which one has a patient and one has none,
\* both callers ran: the admin got the one patient, the other caller none,
\* and the chart has a rate above 0.
C28_Witness ==
    /\ stats.other.run /\ stats.admin.run
    /\ Len(stats.effects) = 2
    /\ Len(stats.admin.patients) = 1 /\ stats.other.patients = <<>>
    /\ stats.admin.chart.datasets[1].data[1] > 0

\* --------------------------------------------------------- SpecButton
\* Events on one Button.  An event's updater is queued on the latest state;
\* the handlers of the events that follow before React renders again still
\* close over the state last rendered.
MouseEnter ==
    /\ button' = [button EXCEPT !.latest = handleMouseEnter(button.rendered, button.latest)]
    /\ UNCHANGED besideButton

MouseLeave ==
    /\ button' = [button EXCEPT !.latest = handleMouseLeave(button.rendered, button.latest)]
    /\ UNCHANGED besideButton

AnimationEnd ==
    /\ button' = [button EXCEPT !.latest = handleAnimationEnd(button.rendered, button.latest)]
    /\ UNCHANGED besideButton

MouseDown ==
    /\ button' = [button EXCEPT !.latest = handleMouseDown(button.rendered, button.latest)]
    /\ UNCHANGED besideButton

MouseUp ==
    /\ button' = [button EXCEPT !.latest = handleMouseUp(button.rendered, button.latest)]
    /\ UNCHANGED besideButton

\* React renders the component again: after a state update, or because the
\* parent passes a state prop.
Rerender ==
    /\ \E state \in ButtonStates : button' = Render(button, state)
    /\ UNCHANGED besideButton

InitButton ==
    /\ Quiet
    /\ NoContextYet /\ NoWidgetYet /\ NoSubmitYet /\ NoStatsYet /\ NoModalYet
    /\ button \in {Render(NoButton, state) : state \in ButtonStates}

NextButton ==
    MouseEnter \/ MouseLeave \/ AnimationEnd \/ MouseDown \/ MouseUp \/ Rerender
SpecButton == InitButton /\ [][NextButton]_vars

\* C29: isEntering and isLeaving are never both true, isLeaving implies not
\* isHovered, and the state shown is Pressed when pressed, else Hovered when
\* hovered and the state given is Enabled, else the state given; a Disabled
\* button is never shown as Hovered.
C29_Interaction ==
    /\ \A s \in {button.latest, button.rendered} :
           /\ ~(s.isEntering /\ s.isLeaving)
           /\ s.isLeaving => ~s.isHovered
    /\ button.rendered.isPressed => button.shown = "pressed"
    /\ (~button.rendered.isPressed /\ button.rendered.isHovered
            /\ button.state = "enabled") => button.shown = "hovered"
    /\ (~button.rendered.isPressed
            /\ ~(button.rendered.isHovered /\ button.state = "enabled"))
           => button.shown = button.state
    /\ button.state = "disabled" => button.shown # "hovered"

\* C29 witness: a Disabled button, hovered and rendered, is shown Disabled,
\* and a leave that followed an enter is pending.
C29_Witness ==
    /\ button.state = "disabled" /\ button.rendered.isHovered
    /\ button.shown = "disabled"
    /\ button.latest.isLeaving /\ ~button.latest.isEntering

\* ---------------------------------------------------------- SpecModal
\* The modal mounted, its interval ticking, its requests answered, its
\* resend button clicked.
RunEffect ==
    /\ EffectDue(modal)
    /\ modal.requests < MaxRequests
    /\ modal' = [Effect(modal) EXCEPT !.sentDisabled =
                    @ \/ (Effect(modal).requests > modal.requests
                          /\ modal.isResendButtonDisabled)]
    /\ UNCHANGED besideModal

IntervalTick ==
    /\ modal.countdown
    /\ ~EffectDue(modal)
    /\ modal' = Countdown(modal)
    /\ UNCHANGED besideModal

\* forgotPassword answers: MaxEmailsLimitReached, or another result.
Answer ==
    /\ modal.awaiting > 0
    /\ \E reached \in BOOLEAN :
           modal' = [modal EXCEPT !.awaiting = @ - 1,
                                  !.resendLimitReached = @ \/ reached]
    /\ UNCHANGED besideModal

\* getEmailCount answers: at least the maximum, or less.
CountAnswer ==
    /\ modal.counting > 0
    /\ \E reached \in BOOLEAN :
           modal' = [modal EXCEPT !.counting = @ - 1,
                                  !.resendLimitReached = @ \/ reached]
    /\ UNCHANGED besideModal

\* The button is rendered while the limit is not reached.
ClickResend ==
    /\ ~modal.resendLimitReached
    /\ modal.dep # "unmounted"
    /\ modal' = onClick(modal)
    /\ UNCHANGED besideModal

InitModal ==
    /\ Quiet
    /\ NoContextYet /\ NoWidgetYet /\ NoSubmitYet /\ NoStatsYet /\ NoButtonYet
    /\ modal = NoModal

NextModal == RunEffect \/ IntervalTick \/ Answer \/ CountAnswer \/ ClickResend
SpecModal == InitModal /\ [][NextModal]_vars

\* C30 as stated: no forgotPassword request is sent while the resend button
\* is disabled, the button is disabled exactly while the timer counts down,
\* and a request is sent on mount or on a resend by the user only.
C30_Original ==
    /\ ~modal.sentDisabled
    /\ modal.isResendButtonDisabled <=> modal.timer > 0
    /\ modal.isResendButtonDisabled <=> modal.countdown
    /\ modal.cause \in {"none", "mount", "resend"}

====
